---------------------------- MODULE Spec2Model ----------------------------
(***************************************************************************)
(* A model of the ERCOT settlement-point-price integration                 *)
(* (custom_components/ercot_spp): the update cycle of                      *)
(* ERCOTDataUpdateCoordinator (fetch, regular-expression extraction, zone  *)
(* lookup, float conversion), the set-up of a config entry and the sensor  *)
(* reads.                                                                  *)
(*                                                                         *)
(* A document is a sequence of one-character strings, and the two regular  *)
(* expressions of the update cycle are modelled character by character.   *)
(***************************************************************************)
EXTENDS Integers, Sequences, FiniteSets, TLC

\* Python's None, where a dictionary or an object is expected.
None == [kind |-> "None"]

\* Python's None, where a text is expected: no text of characters equals it.
NoText == <<"None">>

\* No exception was raised.
NoException == "None"

Min(S) == CHOOSE x \in S : \A y \in S : x <= y

Max(S) == CHOOSE x \in S : \A y \in S : y <= x

(***************************************************************************)
(* Text.                                                                   *)
(***************************************************************************)
UpperLetters ==
  <<"A", "B", "C", "D", "E", "F", "G", "H", "I", "J", "K", "L", "M",
    "N", "O", "P", "Q", "R", "S", "T", "U", "V", "W", "X", "Y", "Z">>

LowerLetters ==
  <<"a", "b", "c", "d", "e", "f", "g", "h", "i", "j", "k", "l", "m",
    "n", "o", "p", "q", "r", "s", "t", "u", "v", "w", "x", "y", "z">>

\* The lower-case form of a character (re.IGNORECASE, str.lower on ASCII).
Lower(c) ==
  IF \E i \in 1..26 : UpperLetters[i] = c
    THEN LowerLetters[CHOOSE i \in 1..26 : UpperLetters[i] = c]
    ELSE c

\* s has the characters of lit at position i, compared case-insensitively.
MatchesAtCI(s, i, lit) ==
  /\ i >= 1
  /\ i + Len(lit) - 1 <= Len(s)
  /\ \A k \in 1..Len(lit) : Lower(s[i + k - 1]) = lit[k]

\* s has the characters of lit at position i, compared exactly.
MatchesAt(s, i, lit) ==
  /\ i >= 1
  /\ i + Len(lit) - 1 <= Len(s)
  /\ \A k \in 1..Len(lit) : s[i + k - 1] = lit[k]

\* The first position >= i of s that holds a character of the set stop,
\* Len(s) + 1 when there is none.
FirstOf(s, stop, i) ==
  Min({k \in i..Len(s) : s[k] \in stop} \cup {Len(s) + 1})

(***************************************************************************)
(* re.search(r'Last Updated: ([^<\n]+)', html)                             *)
(***************************************************************************)
CaptionLiteral ==
  <<"L", "a", "s", "t", " ", "U", "p", "d", "a", "t", "e", "d", ":", " ">>

\* The pattern matches at position i: the literal, then at least one
\* character that is neither "<" nor a line feed.
TimestampMatchAt(html, i) ==
  /\ MatchesAt(html, i, CaptionLiteral)
  /\ i + Len(CaptionLiteral) <= Len(html)
  /\ html[i + Len(CaptionLiteral)] \notin {"<", "\n"}

\* A variant of timestamp_match for the pattern 'Last Updated: ([^<\n]*)',
\* which also matches a caption with nothing after it.
timestamp_match_star(html) ==
  LET starts == {i \in 1..Len(html) : MatchesAt(html, i, CaptionLiteral)}
  IN  IF starts = {} THEN NoText
      ELSE LET from == Min(starts) + Len(CaptionLiteral)
           IN  SubSeq(html, from, FirstOf(html, {"<", "\n"}, from) - 1)

\* group(1) of the leftmost match, NoText when the pattern matches nowhere.
timestamp_match(html) ==
  LET starts == {i \in 1..Len(html) : TimestampMatchAt(html, i)}
  IN  IF starts = {} THEN NoText
      ELSE LET from == Min(starts) + Len(CaptionLiteral)
           IN  SubSeq(html, from, FirstOf(html, {"<", "\n"}, from) - 1)

(***************************************************************************)
(* re.findall(r'<td[^>]*>([^<]+)</td>', html, re.IGNORECASE)               *)
(***************************************************************************)
TdOpenLiteral == <<"<", "t", "d">>

TdCloseLiteral == <<"<", "/", "t", "d", ">">>

\* The pattern matched at position i: [open, close] where open is the
\* position of the ">" that ends the opening tag and close the position of
\* the "<" of the closing tag; <<>> when the pattern does not match at i.
\* [^>]* can only end at the first ">" and [^<]+ only at the first "<", so
\* backtracking finds no other match.
CellMatchAt(html, i) ==
  IF ~MatchesAtCI(html, i, TdOpenLiteral) THEN <<>>
  ELSE LET open  == FirstOf(html, {">"}, i + Len(TdOpenLiteral))
           close == FirstOf(html, {"<"}, open + 1)
       IN  IF /\ open <= Len(html)
              /\ close > open + 1
              /\ MatchesAtCI(html, close, TdCloseLiteral)
             THEN <<open, close>>
             ELSE <<>>

\* The matches of the pattern anywhere in html. Two matches that overlap
\* start in the same opening tag (a "<" inside a match can only stand among
\* the tag's attributes) and end at the same closing tag, so the
\* non-overlapping matches found from left to right are these, one for each
\* pair.
CellMatches(html) ==
  {CellMatchAt(html, i) : i \in {k \in 1..Len(html) : html[k] = "<"}} \ {<<>>}

\* The captured groups (the text between the tags) in document order.
cells(html) ==
  LET found == CellMatches(html)
      nth(k) == CHOOSE m \in found :
                   Cardinality({o \in found : o[1] < m[1]}) = k - 1
  IN  [k \in 1..Cardinality(found) |->
         SubSeq(html, nth(k)[1] + 1, nth(k)[2] - 1)]

(***************************************************************************)
(* Natural numbers of any size, written as their limbs in base 2^15, the   *)
(* least significant first (<<>> is zero): the arithmetic of IEEE 754      *)
(* doubles below needs integers far beyond 32 bits.                        *)
(***************************************************************************)
Base == 2^15

Limb(a, i) == IF i <= Len(a) THEN a[i] ELSE 0

\* a without its leading zero limbs.
Trim(a) == SubSeq(a, 1, Max({k \in 1..Len(a) : a[k] /= 0} \cup {0}))

\* The limbs of the integer n, 0 <= n < 2^31.
Limbs(n) == Trim(<<n % Base, (n \div Base) % Base, n \div (Base * Base)>>)

\* The integer of at most three limbs.
ToInt(a) == Limb(a, 1) + Limb(a, 2) * Base + Limb(a, 3) * Base * Base

\* a + b. A carry enters limb i when some limb j below it makes one (the
\* two limbs add up to Base or more) and every limb between the two passes
\* it on (they add up to Base - 1).
Add(a, b) ==
  LET n      == Max({Len(a), Len(b)})
      makes  == {j \in 1..n : Limb(a, j) + Limb(b, j) >= Base}
      passes == {j \in 1..n : Limb(a, j) + Limb(b, j) = Base - 1}
      carry(i) ==
        IF \E j \in makes : j < i /\ \A k \in (j + 1)..(i - 1) : k \in passes
          THEN 1 ELSE 0
  IN  Trim([i \in 1..(n + 1) |-> (Limb(a, i) + Limb(b, i) + carry(i)) % Base])

\* a * k for 0 <= k <= Base: the low halves of the products of the limbs
\* plus their high halves one limb up.
MulSmall(a, k) ==
  Add([i \in 1..Len(a) |-> (a[i] * k) % Base],
      <<0>> \o [i \in 1..Len(a) |-> (a[i] * k) \div Base])

\* a * Base^n
ShiftLimbs(a, n) == IF a = <<>> THEN <<>> ELSE [i \in 1..n |-> 0] \o a

\* a * b[lo..hi], the limbs lo to hi of b taken as a number.
RECURSIVE MulRange(_, _, _, _)
MulRange(a, b, lo, hi) ==
  IF lo > hi THEN <<>>
  ELSE IF lo = hi THEN MulSmall(a, b[lo])
  ELSE LET mid == (lo + hi) \div 2
       IN  Add(MulRange(a, b, lo, mid),
               ShiftLimbs(MulRange(a, b, mid + 1, hi), mid + 1 - lo))

Mul(a, b) == MulRange(a, b, 1, Len(b))

\* (r * Base^(hi - lo + 1) + a[lo..hi]) divided by k, for r < k <= Base: the
\* limbs of the quotient as the division yields them, the most significant
\* first, and the remainder.
RECURSIVE DivRange(_, _, _, _, _)
DivRange(a, lo, hi, k, r) ==
  IF lo = hi
    THEN [q |-> <<(r * Base + a[lo]) \div k>>, r |-> (r * Base + a[lo]) % k]
  ELSE LET mid == (lo + hi) \div 2
           top == DivRange(a, mid + 1, hi, k, r)
           bot == DivRange(a, lo, mid, k, top.r)
       IN  [q |-> top.q \o bot.q, r |-> bot.r]

\* The quotient and the remainder of a by k, 0 < k <= Base.
DivSmall(a, k) ==
  IF a = <<>> THEN [q |-> <<>>, r |-> 0]
  ELSE LET n == Len(a)
           d == DivRange(a, 1, n, k, 0)
       IN  [q |-> Trim([i \in 1..n |-> d.q[n + 1 - i]]), r |-> d.r]

\* a * 2^s
ShiftLeft(a, s) == MulSmall(ShiftLimbs(a, s \div 15), 2^(s % 15))

\* a \div 2^s, and whether a bit was lost: d is the quotient and the
\* remainder of the limbs of a from limb n + 1 on by 2^(s % 15).
Shifted(a, n, d) ==
  [q      |-> d.q,
   sticky |-> d.r /= 0 \/ \E i \in 1..Len(a) : i <= n /\ a[i] /= 0]

ShiftRight(a, s) ==
  Shifted(a, s \div 15, DivSmall(SubSeq(a, s \div 15 + 1, Len(a)), 2^(s % 15)))

\* The quotient of a division, and whether it left a remainder.
WithSticky(d) == [q |-> d.q, sticky |-> d.r /= 0]

\* The number of bits of a.
BitLength(a) ==
  IF a = <<>> THEN 0
  ELSE 15 * (Len(a) - 1) + Cardinality({k \in 0..14 : 2^k <= a[Len(a)]})

IsOdd(a) == a /= <<>> /\ a[1] % 2 = 1

\* a * 10^k
RECURSIVE MulPow10(_, _)
MulPow10(a, k) ==
  IF a = <<>> THEN <<>>
  ELSE IF k <= 4 THEN MulSmall(a, 10^k)
  ELSE MulPow10(MulPow10(a, k \div 2), k - k \div 2)

\* a * 5^k
RECURSIVE MulPow5(_, _)
MulPow5(a, k) ==
  IF a = <<>> THEN <<>>
  ELSE IF k <= 6 THEN MulSmall(a, 5^k)
  ELSE MulPow5(MulPow5(a, k \div 2), k - k \div 2)

\* a \div 5^k, and whether the division left a remainder.
RECURSIVE DivPow5(_, _)
DivPow5(a, k) ==
  IF a = <<>> THEN [q |-> <<>>, sticky |-> FALSE]
  ELSE IF k <= 6
    THEN LET d == DivSmall(a, 5^k) IN [q |-> d.q, sticky |-> d.r /= 0]
  ELSE LET h == DivPow5(a, k \div 2)
           l == DivPow5(h.q, k - k \div 2)
       IN  [q |-> l.q, sticky |-> h.sticky \/ l.sticky]

\* a < b
Below(a, b) ==
  LET differ == {i \in 1..Max({Len(a), Len(b)}) : Limb(a, i) /= Limb(b, i)}
  IN  differ /= {} /\ Limb(a, Max(differ)) < Limb(b, Max(differ))

\* a - b, b not above a. Limb i borrows when some limb j below it does (its
\* limb of a is below that of b) and the limbs between the two are equal.
Sub(a, b) ==
  LET n      == Len(a)
      makes  == {j \in 1..n : Limb(a, j) < Limb(b, j)}
      passes == {j \in 1..n : Limb(a, j) = Limb(b, j)}
      borrow(i) ==
        IF \E j \in makes : j < i /\ \A k \in (j + 1)..(i - 1) : k \in passes
          THEN 1 ELSE 0
  IN  Trim([i \in 1..n |-> (Limb(a, i) - Limb(b, i) - borrow(i) + Base) % Base])

\* The number written by the decimal digits ds[lo..hi], of at most nine.
RECURSIVE DigitsInt(_, _, _)
DigitsInt(ds, lo, hi) ==
  IF lo > hi THEN 0 ELSE DigitsInt(ds, lo, hi - 1) * 10 + ds[hi]

\* The number written by the decimal digits ds[lo..hi].
RECURSIVE FromDigits(_, _, _)
FromDigits(ds, lo, hi) ==
  IF hi - lo < 9 THEN Limbs(DigitsInt(ds, lo, hi))
  ELSE LET mid == (lo + hi) \div 2
       IN  Add(MulPow10(FromDigits(ds, lo, mid), hi - mid),
               FromDigits(ds, mid + 1, hi))

(***************************************************************************)
(* IEEE 754 doubles. Whether 0.215 rounds to 0.21 or to 0.22 depends on    *)
(* the double nearest to it, so the arithmetic is done on the doubles      *)
(* themselves. A finite double is (-1)^neg * significand * 2^exponent: a   *)
(* normal one has a significand of exactly 53 bits and an exponent from    *)
(* -1074 to 971, a subnormal one a significand below 2^52 and the          *)
(* exponent -1074, and zero is written with no limbs and the exponent 0.   *)
(***************************************************************************)
Double(neg, significand, exponent) ==
  [kind |-> "finite", neg |-> neg, significand |-> significand, exponent |-> exponent]

Infinite(neg) == [kind |-> "inf", neg |-> neg, mant |-> 0, exp |-> 0]

NaN == [kind |-> "nan", neg |-> FALSE, mant |-> 0, exp |-> 0]

IsZero(x) == x.kind = "finite" /\ x.significand = <<>>

\* a \div 2, rounded to the nearest and to the even for a tie; sticky: a
\* stands for a number slightly above a. q is a \div 2.
HalfEvenOf(a, q, sticky) ==
  IF IsOdd(a) /\ (sticky \/ IsOdd(q)) THEN Add(q, <<1>>) ELSE q

HalfEven(a, sticky) == HalfEvenOf(a, ShiftRight(a, 1).q, sticky)

\* The same for what a shift to the right left, top.q with top.sticky.
HalfEvenShifted(top, sticky) == HalfEven(top.q, top.sticky \/ sticky)

\* The double m * 2^unit for a significand m that was rounded to 53 bits
\* or fewer: the rounding may have carried into a 54th bit, and a result of
\* 2^1024 or more is infinite.
Rounded(neg, m, unit) ==
  IF m = <<>> THEN Double(neg, <<>>, 0)
  ELSE IF unit + BitLength(m) - 1 > 1023 THEN Infinite(neg)
  ELSE IF BitLength(m) > 53 THEN Double(neg, ShiftRight(m, 1).q, unit + 1)
  ELSE Double(neg, m, unit)

\* The double nearest to n * 2^e (ties to even) for n of len bits; sticky:
\* the number is slightly above n * 2^e, and n has 55 bits or more. lead is
\* the exponent of the leading bit of n * 2^e and unit that of the last bit
\* of the doubles around it: below 2^-1075 the nearest double is zero, and
\* below 2^-1022 the doubles are the multiples of 2^-1074.
RoundBits(neg, n, e, sticky, len) ==
  LET lead == e + len - 1
      unit == IF lead < -1022 THEN -1074 ELSE lead - 52
  IN  IF len = 0 \/ lead < -1075 THEN Double(neg, <<>>, 0)
      ELSE Rounded(neg,
                   IF e >= unit THEN ShiftLeft(n, e - unit)
                   ELSE HalfEvenShifted(ShiftRight(n, unit - e - 1), sticky),
                   unit)

RoundToDouble(neg, n, e, sticky) == RoundBits(neg, n, e, sticky, BitLength(n))

\* n * 2^s * 5^e10, as a whole number and whether a fraction was cut off.
ScaledPow5(n, s, e10) ==
  IF e10 >= 0 THEN [q |-> ShiftLeft(MulPow5(n, e10), s), sticky |-> FALSE]
  ELSE DivPow5(ShiftLeft(n, s), 0 - e10)

\* The double nearest to d.q * 2^e; d.sticky or sticky: the number is
\* slightly above it.
RoundQuotient(neg, d, e, sticky) == RoundToDouble(neg, d.q, e, d.sticky \/ sticky)

\* The double nearest to n * 10^e10, n >= 1; sticky: the number is slightly
\* above n * 10^e10. For a negative e10 = -k the number is
\* n * 2^s / 5^k * 2^(-k-s), and s is such that the quotient has 64 bits or
\* more (5^k has at most 7k/3 + 1 bits).
DecimalToDouble(neg, n, e10, sticky) ==
  LET s == IF e10 >= 0 THEN 0
           ELSE Max({0, 65 + (7 * (0 - e10)) \div 3 - BitLength(n)})
  IN  RoundQuotient(neg, ScaledPow5(n, s, e10), e10 - s, sticky)

\* d.q * 2^e rounded to the nearest whole number (ties to even); d.sticky:
\* the number is slightly above d.q * 2^e, and e is -2 or less then.
WholeOf(d, e) ==
  IF e >= 0 THEN ShiftLeft(d.q, e)
  ELSE IF 0 - e > BitLength(d.q) + 1 THEN <<>>
  ELSE HalfEvenShifted(ShiftRight(d.q, 0 - e - 1), d.sticky)

\* sig * 2^e2 * 10^e10 rounded to the nearest whole number (ties to even).
\* For a negative e10 = -k the number is sig * 2^s / 5^k * 2^(e2 - k - s),
\* with s such that the last factor is a quarter or less.
RoundScaled(sig, e2, e10) ==
  LET s == IF e10 < 0 /\ e2 + e10 + 2 > 0 THEN e2 + e10 + 2 ELSE 0
  IN  WholeOf(ScaledPow5(sig, s, e10), e2 + e10 - s)

(***************************************************************************)
(* float(text): the conversion of a text to a floating-point number.       *)
(*                                                                         *)
(* A character within ASCII is the string of that character; a character   *)
(* past U+007F is the string of its code point in the notation of Unicode, *)
(* "U+" and four to six upper-case hexadecimal digits ("U+00A0" is the     *)
(* no-break space, "U+0663" the Arabic-Indic digit three), so that a text  *)
(* reads the same in every locale.                                         *)
(*                                                                         *)
(* The value of a text is the double nearest to the decimal written. A     *)
(* normal double that some decimal of at most nine significant digits      *)
(* denotes is written as that decimal, (-1)^neg * mant * 10^exp with mant  *)
(* free of trailing zeros (up to 15 significant digits two decimals are    *)
(* the same double exactly when they are the same decimal); every other    *)
(* double is written with its significand and exponent.                    *)
(***************************************************************************)
\* float raised ValueError.
ValueError == [kind |-> "ValueError"]

\* The characters that float() strips at both ends: the tab, the line
\* feed, the vertical tab, the form feed, the carriage return, the space,
\* and the spaces past ASCII: the next-line character, the no-break space,
\* the Ogham space mark, the spaces U+2000 to U+200A, the line and the
\* paragraph separator, the narrow no-break space, the medium mathematical
\* space and the ideographic space. (U+001C to U+001F, which str.strip()
\* takes for spaces, are not stripped by float().)
Whitespace ==
  {"\t", "\n", "", "\f", "\r", " ",
   "U+0085", "U+00A0", "U+1680",
   "U+2000", "U+2001", "U+2002", "U+2003", "U+2004", "U+2005", "U+2006",
   "U+2007", "U+2008", "U+2009", "U+200A",
   "U+2028", "U+2029", "U+202F", "U+205F", "U+3000"}

DigitChars == <<"0", "1", "2", "3", "4", "5", "6", "7", "8", "9">>

\* The decimal digits past ASCII (Unicode 14, category Nd), which float()
\* reads as the ASCII digits: each row holds the digits zero to nine of one
\* script.
UnicodeDigits ==
  <<
     <<"U+0660", "U+0661", "U+0662", "U+0663", "U+0664",
       "U+0665", "U+0666", "U+0667", "U+0668", "U+0669">>,
     <<"U+06F0", "U+06F1", "U+06F2", "U+06F3", "U+06F4",
       "U+06F5", "U+06F6", "U+06F7", "U+06F8", "U+06F9">>,
     <<"U+07C0", "U+07C1", "U+07C2", "U+07C3", "U+07C4",
       "U+07C5", "U+07C6", "U+07C7", "U+07C8", "U+07C9">>,
     <<"U+0966", "U+0967", "U+0968", "U+0969", "U+096A",
       "U+096B", "U+096C", "U+096D", "U+096E", "U+096F">>,
     <<"U+09E6", "U+09E7", "U+09E8", "U+09E9", "U+09EA",
       "U+09EB", "U+09EC", "U+09ED", "U+09EE", "U+09EF">>,
     <<"U+0A66", "U+0A67", "U+0A68", "U+0A69", "U+0A6A",
       "U+0A6B", "U+0A6C", "U+0A6D", "U+0A6E", "U+0A6F">>,
     <<"U+0AE6", "U+0AE7", "U+0AE8", "U+0AE9", "U+0AEA",
       "U+0AEB", "U+0AEC", "U+0AED", "U+0AEE", "U+0AEF">>,
     <<"U+0B66", "U+0B67", "U+0B68", "U+0B69", "U+0B6A",
       "U+0B6B", "U+0B6C", "U+0B6D", "U+0B6E", "U+0B6F">>,
     <<"U+0BE6", "U+0BE7", "U+0BE8", "U+0BE9", "U+0BEA",
       "U+0BEB", "U+0BEC", "U+0BED", "U+0BEE", "U+0BEF">>,
     <<"U+0C66", "U+0C67", "U+0C68", "U+0C69", "U+0C6A",
       "U+0C6B", "U+0C6C", "U+0C6D", "U+0C6E", "U+0C6F">>,
     <<"U+0CE6", "U+0CE7", "U+0CE8", "U+0CE9", "U+0CEA",
       "U+0CEB", "U+0CEC", "U+0CED", "U+0CEE", "U+0CEF">>,
     <<"U+0D66", "U+0D67", "U+0D68", "U+0D69", "U+0D6A",
       "U+0D6B", "U+0D6C", "U+0D6D", "U+0D6E", "U+0D6F">>,
     <<"U+0DE6", "U+0DE7", "U+0DE8", "U+0DE9", "U+0DEA",
       "U+0DEB", "U+0DEC", "U+0DED", "U+0DEE", "U+0DEF">>,
     <<"U+0E50", "U+0E51", "U+0E52", "U+0E53", "U+0E54",
       "U+0E55", "U+0E56", "U+0E57", "U+0E58", "U+0E59">>,
     <<"U+0ED0", "U+0ED1", "U+0ED2", "U+0ED3", "U+0ED4",
       "U+0ED5", "U+0ED6", "U+0ED7", "U+0ED8", "U+0ED9">>,
     <<"U+0F20", "U+0F21", "U+0F22", "U+0F23", "U+0F24",
       "U+0F25", "U+0F26", "U+0F27", "U+0F28", "U+0F29">>,
     <<"U+1040", "U+1041", "U+1042", "U+1043", "U+1044",
       "U+1045", "U+1046", "U+1047", "U+1048", "U+1049">>,
     <<"U+1090", "U+1091", "U+1092", "U+1093", "U+1094",
       "U+1095", "U+1096", "U+1097", "U+1098", "U+1099">>,
     <<"U+17E0", "U+17E1", "U+17E2", "U+17E3", "U+17E4",
       "U+17E5", "U+17E6", "U+17E7", "U+17E8", "U+17E9">>,
     <<"U+1810", "U+1811", "U+1812", "U+1813", "U+1814",
       "U+1815", "U+1816", "U+1817", "U+1818", "U+1819">>,
     <<"U+1946", "U+1947", "U+1948", "U+1949", "U+194A",
       "U+194B", "U+194C", "U+194D", "U+194E", "U+194F">>,
     <<"U+19D0", "U+19D1", "U+19D2", "U+19D3", "U+19D4",
       "U+19D5", "U+19D6", "U+19D7", "U+19D8", "U+19D9">>,
     <<"U+1A80", "U+1A81", "U+1A82", "U+1A83", "U+1A84",
       "U+1A85", "U+1A86", "U+1A87", "U+1A88", "U+1A89">>,
     <<"U+1A90", "U+1A91", "U+1A92", "U+1A93", "U+1A94",
       "U+1A95", "U+1A96", "U+1A97", "U+1A98", "U+1A99">>,
     <<"U+1B50", "U+1B51", "U+1B52", "U+1B53", "U+1B54",
       "U+1B55", "U+1B56", "U+1B57", "U+1B58", "U+1B59">>,
     <<"U+1BB0", "U+1BB1", "U+1BB2", "U+1BB3", "U+1BB4",
       "U+1BB5", "U+1BB6", "U+1BB7", "U+1BB8", "U+1BB9">>,
     <<"U+1C40", "U+1C41", "U+1C42", "U+1C43", "U+1C44",
       "U+1C45", "U+1C46", "U+1C47", "U+1C48", "U+1C49">>,
     <<"U+1C50", "U+1C51", "U+1C52", "U+1C53", "U+1C54",
       "U+1C55", "U+1C56", "U+1C57", "U+1C58", "U+1C59">>,
     <<"U+A620", "U+A621", "U+A622", "U+A623", "U+A624",
       "U+A625", "U+A626", "U+A627", "U+A628", "U+A629">>,
     <<"U+A8D0", "U+A8D1", "U+A8D2", "U+A8D3", "U+A8D4",
       "U+A8D5", "U+A8D6", "U+A8D7", "U+A8D8", "U+A8D9">>,
     <<"U+A900", "U+A901", "U+A902", "U+A903", "U+A904",
       "U+A905", "U+A906", "U+A907", "U+A908", "U+A909">>,
     <<"U+A9D0", "U+A9D1", "U+A9D2", "U+A9D3", "U+A9D4",
       "U+A9D5", "U+A9D6", "U+A9D7", "U+A9D8", "U+A9D9">>,
     <<"U+A9F0", "U+A9F1", "U+A9F2", "U+A9F3", "U+A9F4",
       "U+A9F5", "U+A9F6", "U+A9F7", "U+A9F8", "U+A9F9">>,
     <<"U+AA50", "U+AA51", "U+AA52", "U+AA53", "U+AA54",
       "U+AA55", "U+AA56", "U+AA57", "U+AA58", "U+AA59">>,
     <<"U+ABF0", "U+ABF1", "U+ABF2", "U+ABF3", "U+ABF4",
       "U+ABF5", "U+ABF6", "U+ABF7", "U+ABF8", "U+ABF9">>,
     <<"U+FF10", "U+FF11", "U+FF12", "U+FF13", "U+FF14",
       "U+FF15", "U+FF16", "U+FF17", "U+FF18", "U+FF19">>,
     <<"U+104A0", "U+104A1", "U+104A2", "U+104A3", "U+104A4",
       "U+104A5", "U+104A6", "U+104A7", "U+104A8", "U+104A9">>,
     <<"U+10D30", "U+10D31", "U+10D32", "U+10D33", "U+10D34",
       "U+10D35", "U+10D36", "U+10D37", "U+10D38", "U+10D39">>,
     <<"U+11066", "U+11067", "U+11068", "U+11069", "U+1106A",
       "U+1106B", "U+1106C", "U+1106D", "U+1106E", "U+1106F">>,
     <<"U+110F0", "U+110F1", "U+110F2", "U+110F3", "U+110F4",
       "U+110F5", "U+110F6", "U+110F7", "U+110F8", "U+110F9">>,
     <<"U+11136", "U+11137", "U+11138", "U+11139", "U+1113A",
       "U+1113B", "U+1113C", "U+1113D", "U+1113E", "U+1113F">>,
     <<"U+111D0", "U+111D1", "U+111D2", "U+111D3", "U+111D4",
       "U+111D5", "U+111D6", "U+111D7", "U+111D8", "U+111D9">>,
     <<"U+112F0", "U+112F1", "U+112F2", "U+112F3", "U+112F4",
       "U+112F5", "U+112F6", "U+112F7", "U+112F8", "U+112F9">>,
     <<"U+11450", "U+11451", "U+11452", "U+11453", "U+11454",
       "U+11455", "U+11456", "U+11457", "U+11458", "U+11459">>,
     <<"U+114D0", "U+114D1", "U+114D2", "U+114D3", "U+114D4",
       "U+114D5", "U+114D6", "U+114D7", "U+114D8", "U+114D9">>,
     <<"U+11650", "U+11651", "U+11652", "U+11653", "U+11654",
       "U+11655", "U+11656", "U+11657", "U+11658", "U+11659">>,
     <<"U+116C0", "U+116C1", "U+116C2", "U+116C3", "U+116C4",
       "U+116C5", "U+116C6", "U+116C7", "U+116C8", "U+116C9">>,
     <<"U+11730", "U+11731", "U+11732", "U+11733", "U+11734",
       "U+11735", "U+11736", "U+11737", "U+11738", "U+11739">>,
     <<"U+118E0", "U+118E1", "U+118E2", "U+118E3", "U+118E4",
       "U+118E5", "U+118E6", "U+118E7", "U+118E8", "U+118E9">>,
     <<"U+11950", "U+11951", "U+11952", "U+11953", "U+11954",
       "U+11955", "U+11956", "U+11957", "U+11958", "U+11959">>,
     <<"U+11C50", "U+11C51", "U+11C52", "U+11C53", "U+11C54",
       "U+11C55", "U+11C56", "U+11C57", "U+11C58", "U+11C59">>,
     <<"U+11D50", "U+11D51", "U+11D52", "U+11D53", "U+11D54",
       "U+11D55", "U+11D56", "U+11D57", "U+11D58", "U+11D59">>,
     <<"U+11DA0", "U+11DA1", "U+11DA2", "U+11DA3", "U+11DA4",
       "U+11DA5", "U+11DA6", "U+11DA7", "U+11DA8", "U+11DA9">>,
     <<"U+16A60", "U+16A61", "U+16A62", "U+16A63", "U+16A64",
       "U+16A65", "U+16A66", "U+16A67", "U+16A68", "U+16A69">>,
     <<"U+16AC0", "U+16AC1", "U+16AC2", "U+16AC3", "U+16AC4",
       "U+16AC5", "U+16AC6", "U+16AC7", "U+16AC8", "U+16AC9">>,
     <<"U+16B50", "U+16B51", "U+16B52", "U+16B53", "U+16B54",
       "U+16B55", "U+16B56", "U+16B57", "U+16B58", "U+16B59">>,
     <<"U+1D7CE", "U+1D7CF", "U+1D7D0", "U+1D7D1", "U+1D7D2",
       "U+1D7D3", "U+1D7D4", "U+1D7D5", "U+1D7D6", "U+1D7D7">>,
     <<"U+1D7D8", "U+1D7D9", "U+1D7DA", "U+1D7DB", "U+1D7DC",
       "U+1D7DD", "U+1D7DE", "U+1D7DF", "U+1D7E0", "U+1D7E1">>,
     <<"U+1D7E2", "U+1D7E3", "U+1D7E4", "U+1D7E5", "U+1D7E6",
       "U+1D7E7", "U+1D7E8", "U+1D7E9", "U+1D7EA", "U+1D7EB">>,
     <<"U+1D7EC", "U+1D7ED", "U+1D7EE", "U+1D7EF", "U+1D7F0",
       "U+1D7F1", "U+1D7F2", "U+1D7F3", "U+1D7F4", "U+1D7F5">>,
     <<"U+1D7F6", "U+1D7F7", "U+1D7F8", "U+1D7F9", "U+1D7FA",
       "U+1D7FB", "U+1D7FC", "U+1D7FD", "U+1D7FE", "U+1D7FF">>,
     <<"U+1E140", "U+1E141", "U+1E142", "U+1E143", "U+1E144",
       "U+1E145", "U+1E146", "U+1E147", "U+1E148", "U+1E149">>,
     <<"U+1E2F0", "U+1E2F1", "U+1E2F2", "U+1E2F3", "U+1E2F4",
       "U+1E2F5", "U+1E2F6", "U+1E2F7", "U+1E2F8", "U+1E2F9">>,
     <<"U+1E950", "U+1E951", "U+1E952", "U+1E953", "U+1E954",
       "U+1E955", "U+1E956", "U+1E957", "U+1E958", "U+1E959">>,
     <<"U+1FBF0", "U+1FBF1", "U+1FBF2", "U+1FBF3", "U+1FBF4",
       "U+1FBF5", "U+1FBF6", "U+1FBF7", "U+1FBF8", "U+1FBF9">>
  >>

\* The value of every character that float() reads as a digit.
DigitValues ==
  LET rows == <<DigitChars>> \o UnicodeDigits
      all  == {rows[r][d] : r \in 1..Len(rows), d \in 1..10}
  IN  [c \in all |-> (CHOOSE d \in 1..10 : \E r \in 1..Len(rows) : rows[r][d] = c) - 1]

IsDigit(c) == c \in DOMAIN DigitValues

DigitValue(c) == DigitValues[c]

\* text without its leading and trailing whitespace.
Strip(text) ==
  LET inked == {i \in 1..Len(text) : text[i] \notin Whitespace}
  IN  IF inked = {} THEN <<>>
      ELSE SubSeq(text, Min(inked), Max(inked))

\* An underscore is allowed only between two digits.
UnderscoresOk(t) ==
  \A i \in 1..Len(t) :
     t[i] = "_" => /\ i > 1 /\ i < Len(t)
                   /\ IsDigit(t[i - 1]) /\ IsDigit(t[i + 1])

NotUnderscore(c) == c /= "_"

WithoutUnderscores(t) == SelectSeq(t, NotUnderscore)

\* The position after the run of digits of t that starts at i.
DigitsEnd(t, i) ==
  Min({k \in i..Len(t) : ~IsDigit(t[k])} \cup {IF i > Len(t) THEN i ELSE Len(t) + 1})

LowerText(t) == [i \in 1..Len(t) |-> Lower(t[i])]

Finite(neg, mant, exp) == [kind |-> "finite", neg |-> neg, mant |-> mant, exp |-> exp]

\* mant * 10^exp with the trailing zeros of mant moved into exp.
RECURSIVE Normalized(_, _, _)
Normalized(neg, mant, exp) ==
  IF mant = 0 THEN Finite(neg, 0, 0)
  ELSE IF mant % 10 = 0 THEN Normalized(neg, mant \div 10, exp + 1)
  ELSE Finite(neg, mant, exp)

\* The whole number n as a number of the program: an int of Python, or the
\* float of it (the two are equal, and the arithmetic of the sensors gives
\* the same result with either).
Number(n) == Normalized(n < 0, IF n < 0 THEN 0 - n ELSE n, 0)

\* A number is a whole one; the whole number that it then is.
IsWhole(v) == v.kind = "finite" /\ v.exp >= 0

WholeValue(v) == (IF v.neg THEN -1 ELSE 1) * v.mant * 10^v.exp

RECURSIVE DecimalDigits(_)
DecimalDigits(n) == IF n < 10 THEN 1 ELSE 1 + DecimalDigits(n \div 10)

RECURSIVE Pow10(_)
Pow10(n) == IF n <= 0 THEN 1 ELSE 10 * Pow10(n - 1)

\* No halfway point between two doubles has more significant digits than
\* this: the digits of a decimal past them only tell whether it lies above
\* the decimal of the digits before.
MaxDigits == 770

\* The decimal of nine significant digits nearest to the normal double d,
\* mant * 10^(p - 8) for the exponent p of the nine digits nearest to d,
\* as '%.8e' gives them: p is about 0.30103 times the exponent of the
\* leading bit of d, and the least p for which mant, which is d * 10^(8 - p)
\* rounded to a whole number (mants[p]), has nine digits and no more. It is
\* the exponent of the first digit of d unless the nine digits of d round up
\* to 10^9, and one more then, with the mant 10^8.
NineOf(d, mants) ==
  LET p == Min({q \in DOMAIN mants : Below(mants[q], Limbs(10^9))})
  IN  Normalized(d.neg, ToInt(mants[p]), p - 8)

NineDigits(d) ==
  LET guess == ((d.exponent + 52) * 30103) \div 100000
  IN  NineOf(d, [q \in (guess - 2)..(guess + 2) |->
                   RoundScaled(d.significand, d.exponent, 8 - q)])

\* The decimal `nine` when it denotes the double d, else d.
DecimalOrDouble(d, nine) ==
  IF DecimalToDouble(d.neg, Limbs(nine.mant), nine.exp, FALSE) = d THEN nine ELSE d

\* A double as the values of float() are written: a normal double that a
\* decimal of at most nine significant digits denotes is written as that
\* decimal, which is then the decimal of nine digits nearest to it.
Canonical(d) ==
  IF d.kind /= "finite" THEN d
  ELSE IF IsZero(d) THEN Finite(d.neg, 0, 0)
  ELSE IF BitLength(d.significand) < 53 THEN d
  ELSE DecimalOrDouble(d, NineDigits(d))

\* The value of the decimal written with the digits ds (of values 0 to 9),
\* the last one times 10^e10. The largest double is 1.7976931348623157e308
\* and the smallest positive one 2^-1074 = 4.94e-324, which a decimal
\* reaches when it is above 2^-1075 = 2.47e-324; top is the exponent of the
\* first significant digit.
FromDecimal(neg, ds, e10) ==
  LET inked == {i \in 1..Len(ds) : ds[i] /= 0}
  IN  IF inked = {} THEN Finite(neg, 0, 0)
      ELSE LET first == Min(inked)
               last  == Max(inked)
               sig   == last - first + 1
               exp   == e10 + (Len(ds) - last)
               top   == exp + sig - 1
           IN  IF top >= 309 THEN Infinite(neg)
               ELSE IF top <= -325 THEN Finite(neg, 0, 0)
               ELSE IF sig <= 9 /\ top >= -290 /\ top <= 290
                 THEN Finite(neg, DigitsInt(ds, first, last), exp)
               ELSE LET kept == Min({sig, MaxDigits})
                    IN  Canonical(DecimalToDouble(neg,
                                    FromDigits(ds, first, first + kept - 1),
                                    exp + (sig - kept), sig > kept))

\* The number written by the digits ds of an exponent; past nine digits
\* every exponent is out of the range of the doubles alike.
ExponentValue(ds) ==
  LET inked == {i \in 1..Len(ds) : ds[i] /= 0}
  IN  IF inked = {} THEN 0
      ELSE IF Len(ds) - Min(inked) >= 9 THEN 10^9
      ELSE DigitsInt(ds, Min(inked), Len(ds))

\* [sign] digits [. digits] [e [sign] digits], at least one digit before the
\* exponent; u is the text after the sign. The digits before the point end
\* before intEnd, those after it run from fracBeg to before fracEnd, and
\* those of the exponent from expBeg to before expEnd.
ParseExponent(neg, u, intEnd, fracBeg, fracEnd, hasExp, expNeg, expBeg, expEnd) ==
  LET nDigits == (intEnd - 1) + (fracEnd - fracBeg)
      expAbs  == ExponentValue([i \in 1..(expEnd - expBeg) |->
                                  DigitValue(u[expBeg + i - 1])])
      digits  == [i \in 1..nDigits |->
                    DigitValue(u[IF i < intEnd THEN i ELSE fracBeg + (i - intEnd)])]
  IN  IF \/ nDigits = 0
         \/ (hasExp /\ expEnd = expBeg)
         \/ expEnd /= Len(u) + 1
        THEN ValueError
        ELSE FromDecimal(neg, digits,
                         (IF expNeg THEN 0 - expAbs ELSE expAbs) - (fracEnd - fracBeg))

ParseFraction(neg, u, intEnd, fracBeg, fracEnd) ==
  LET hasExp  == fracEnd <= Len(u) /\ Lower(u[fracEnd]) = "e"
      expSign == hasExp /\ fracEnd + 1 <= Len(u) /\ u[fracEnd + 1] \in {"+", "-"}
      expBeg  == IF ~hasExp THEN fracEnd
                 ELSE IF expSign THEN fracEnd + 2 ELSE fracEnd + 1
  IN  ParseExponent(neg, u, intEnd, fracBeg, fracEnd, hasExp,
                    expSign /\ u[fracEnd + 1] = "-", expBeg, DigitsEnd(u, expBeg))

ParseInteger(neg, u, intEnd) ==
  LET hasDot  == intEnd <= Len(u) /\ u[intEnd] = "."
      fracBeg == IF hasDot THEN intEnd + 1 ELSE intEnd
  IN  ParseFraction(neg, u, intEnd, fracBeg, DigitsEnd(u, fracBeg))

ParseNumber(neg, u) == ParseInteger(neg, u, DigitsEnd(u, 1))

\* float(text) of Python: the number, or ValueError.
ParseFloat(text) ==
  LET s == Strip(text)
  IN  IF s = <<>> \/ ~UnderscoresOk(s) THEN ValueError
      ELSE LET t      == WithoutUnderscores(s)
               signed == t[1] \in {"+", "-"}
               neg    == t[1] = "-"
               u      == IF signed THEN Tail(t) ELSE t
               word   == LowerText(u)
           IN  IF word \in {<<"i", "n", "f">>,
                            <<"i", "n", "f", "i", "n", "i", "t", "y">>}
                 THEN Infinite(neg)
               ELSE IF word = <<"n", "a", "n">> THEN NaN
               ELSE ParseNumber(neg, u)

(***************************************************************************)
(* Zones.                                                                  *)
(***************************************************************************)
\* const.py: the ZONES list.
ZONES ==
  <<"LZ_AEN", "LZ_CPS", "LZ_HOUSTON", "LZ_LCRA", "LZ_NORTH", "LZ_RAYBN",
    "LZ_SOUTH", "LZ_WEST",
    "HB_BUSAVG", "HB_HOUSTON", "HB_HUBAVG", "HB_NORTH", "HB_PAN", "HB_SOUTH",
    "HB_WEST">>

DEFAULT_ZONE == "LZ_NORTH"

\* A variant of ZoneOptions that offers the Rayburn zone under a name that
\* zone_map does not hold.
ZoneOptionsMistyped ==
  <<"LZ_NORTH", "LZ_SOUTH", "LZ_HOUSTON", "LZ_WEST", "LZ_AEN", "LZ_CPS",
    "LZ_LCRA", "LZ_RAYBURN",
    "HB_BUSAVG", "HB_HOUSTON", "HB_HUBAVG", "HB_NORTH", "HB_PAN", "HB_SOUTH",
    "HB_WEST">>

\* config_flow.py: the values of the options of the zone dropdown.
ZoneOptions ==
  <<"LZ_NORTH", "LZ_SOUTH", "LZ_HOUSTON", "LZ_WEST", "LZ_AEN", "LZ_CPS",
    "LZ_LCRA", "LZ_RAYBN",
    "HB_BUSAVG", "HB_HOUSTON", "HB_HUBAVG", "HB_NORTH", "HB_PAN", "HB_SOUTH",
    "HB_WEST">>

\* __init__.py: zone_map, the column of each zone in a row of the table.
zone_map ==
  [z \in {"HB_BUSAVG", "HB_HOUSTON", "HB_HUBAVG", "HB_NORTH", "HB_PAN",
          "HB_SOUTH", "HB_WEST", "LZ_AEN", "LZ_CPS", "LZ_HOUSTON", "LZ_LCRA",
          "LZ_NORTH", "LZ_RAYBN", "LZ_SOUTH", "LZ_WEST"} |->
     CASE z = "HB_BUSAVG"  -> 2
       [] z = "HB_HOUSTON" -> 3
       [] z = "HB_HUBAVG"  -> 4
       [] z = "HB_NORTH"   -> 5
       [] z = "HB_PAN"     -> 6
       [] z = "HB_SOUTH"   -> 7
       [] z = "HB_WEST"    -> 8
       [] z = "LZ_AEN"     -> 9
       [] z = "LZ_CPS"     -> 10
       [] z = "LZ_HOUSTON" -> 11
       [] z = "LZ_LCRA"    -> 12
       [] z = "LZ_NORTH"   -> 13
       [] z = "LZ_RAYBN"   -> 14
       [] z = "LZ_SOUTH"   -> 15
       [] z = "LZ_WEST"    -> 16]

\* The width of a row: the date, the time and 15 prices.
RowWidth == 17

\* The column used for a zone that zone_map does not hold.
FallbackColumn == 13

\* dict.get(key, default)
Get(map, key, default) == IF key \in DOMAIN map THEN map[key] ELSE default

\* A variant of col_idx that falls back to the column before LZ_NORTH's.
col_idx_neighbour(zone) == Get(zone_map, zone, FallbackColumn - 1)

\* zone_map.get(self.zone, 13)
col_idx(zone) == Get(zone_map, zone, FallbackColumn)

(***************************************************************************)
(* The update cycle: ERCOTDataUpdateCoordinator._async_update_data.        *)
(*                                                                         *)
(* The result of a call is [raised, value]: the exception that left it     *)
(* (NoException when it returned) and what it returned (None when it       *)
(* raised).                                                                *)
(***************************************************************************)
Raise(exception) == [raised |-> exception, value |-> None]

Return(value) == [raised |-> NoException, value |-> value]

\* The two regular expressions applied to the fetched text.
Extract(html) == [timestamp |-> timestamp_match(html), cells |-> cells(html)]

\* The values of function f.
Range(f) == {f[k] : k \in DOMAIN f}

\* A variant of last_row that takes cells[:17], the oldest row.
first_row(cs) == SubSeq(cs, 1, Min({RowWidth, Len(cs)}))

\* cells[-17:]: the last 17 cells, all of them when there are fewer.
last_row(cs) == SubSeq(cs, Max({1, Len(cs) - RowWidth + 1}), Len(cs))

\* A variant of Reading that returns a price of zero for a cell that is no
\* number.
ReadingDefaulted(zone, row, timestamp) ==
  IF col_idx(zone) + 1 > Len(row) THEN Raise("IndexError")
  ELSE LET price == ParseFloat(row[col_idx(zone) + 1])
       IN  Return([price_mwh |-> IF price = ValueError THEN Finite(FALSE, 0, 0) ELSE price,
                   timestamp |-> timestamp,
                   date      |-> row[1],
                   time      |-> row[2]])

\* A variant of Reading that takes the date and the time one cell too far.
ReadingShifted(zone, row, timestamp) ==
  IF col_idx(zone) + 1 > Len(row) THEN Raise("IndexError")
  ELSE LET price == ParseFloat(row[col_idx(zone) + 1])
       IN  IF price = ValueError THEN Raise("ValueError")
           ELSE Return([price_mwh |-> price,
                        timestamp |-> timestamp,
                        date      |-> row[2],
                        time      |-> row[3]])

\* The cycle from the last row on: the column of the zone, the conversion
\* of the price and the dictionary returned.
Reading(zone, row, timestamp) ==
  IF col_idx(zone) + 1 > Len(row) THEN Raise("IndexError")
  ELSE LET price == ParseFloat(row[col_idx(zone) + 1])
       IN  IF price = ValueError THEN Raise("ValueError")
           ELSE Return([price_mwh |-> price,
                        timestamp |-> timestamp,
                        date      |-> row[1],
                        time      |-> row[2]])

\* A variant of Select that accepts a row that is one cell short.
SelectLenient(zone, extracted) ==
  IF Len(extracted.cells) < RowWidth - 1 THEN Raise("Exception")
  ELSE Reading(zone, last_row(extracted.cells), extracted.timestamp)

\* The cycle from the extracted cells on: the check of their number, then
\* the reading of the last row.
Select(zone, extracted) ==
  IF Len(extracted.cells) < RowWidth THEN Raise("Exception")
  ELSE Reading(zone, last_row(extracted.cells), extracted.timestamp)

(***************************************************************************)
(* Documents: the inputs of the update cycle.                              *)
(*                                                                         *)
(* A document is described by [n, style, caption, special, at]: a table of *)
(* n cell elements in rows of RowWidth (the last row may be incomplete),   *)
(* written in one of the tag styles, with one of the captions; when        *)
(* special > 0 the cell that is at-th from the end holds the special text. *)
(* Each cell element is known by its inner text and by the number that     *)
(* text denotes, both fixed by the description and not read back from the  *)
(* rendered text.                                                          *)
(***************************************************************************)
MaxCells == 35

\* The decimal digits of n >= 0.
RECURSIVE Digits(_)
Digits(n) ==
  IF n < 10 THEN <<DigitChars[n + 1]>>
  ELSE Digits(n \div 10) \o <<DigitChars[(n % 10) + 1]>>

\* The concatenation of pieces[lo..hi].
RECURSIVE Concat(_, _, _)
Concat(pieces, lo, hi) ==
  IF lo > hi THEN <<>>
  ELSE IF lo = hi THEN pieces[lo]
  ELSE LET mid == (lo + hi) \div 2
       IN  Concat(pieces, lo, mid) \o Concat(pieces, mid + 1, hi)

RowOf(i) == (i - 1) \div RowWidth

ColumnOf(i) == (i - 1) % RowWidth

\* The i-th cell of a table without special cells: a date, a time, or the
\* price c.r5 of column c in row r, negative in every fifth column (the
\* cents of such a price end in a 5 that has to be rounded away).
PlainCell(i) ==
  LET r == RowOf(i) + 1
      c == ColumnOf(i)
  IN  IF c = 0
        THEN [text  |-> <<"1", "0", "/", "0">> \o Digits(r) \o <<"/", "2", "0", "2", "5">>,
              value |-> ValueError]
      ELSE IF c = 1
        THEN [text  |-> Digits(1000 + 15 * r),
              value |-> Normalized(FALSE, 1000 + 15 * r, 0)]
      ELSE [text  |-> (IF c % 5 = 0 THEN <<"-">> ELSE <<>>)
                        \o Digits(c) \o <<".">> \o Digits(r) \o <<"5">>,
            value |-> Normalized(c % 5 = 0,
                                 (c * Pow10(DecimalDigits(r)) + r) * 10 + 5,
                                 0 - DecimalDigits(r) - 1)]

\* The special cells: an unparseable text, an empty cell, a cell whose text
\* is wrapped in markup, numbers written in unusual ways, prices: a whole
\* one, one below zero, one of two decimals and its opposite, and one
\* whose cents lie halfway between two numbers of two decimals, and the
\* infinity that float() takes as it takes "nan".
SpecialCells ==
  << [text |-> <<"N", "/", "A">>,                          value |-> ValueError],
     [text |-> <<>>,                                       value |-> ValueError],
     [text |-> <<"<", "b", ">", "4", ".", "5", "<", "/", "b", ">">>,
                                                           value |-> ValueError],
     [text |-> <<" ", "7", ".", "2", "5", " ">>,           value |-> Finite(FALSE, 725, -2)],
     [text |-> <<"n", "a", "n">>,                          value |-> NaN],
     [text |-> <<"1", "e", "2">>,                          value |-> Finite(FALSE, 1, 2)],
     [text |-> <<"-", "0">>,                               value |-> Finite(TRUE, 0, 0)],
     [text |-> <<"1", ",", "2", "3", "4", ".", "5", "6">>, value |-> ValueError],
     [text |-> <<"2", "0">>,                               value |-> Finite(FALSE, 2, 1)],
     [text |-> <<"-", "5", ".", "5">>,                     value |-> Finite(TRUE, 55, -1)],
     [text |-> <<"1", "4", ".", "7", "2">>,                value |-> Finite(FALSE, 1472, -2)],
     [text |-> <<"-", "1", "4", ".", "7", "2">>,           value |-> Finite(TRUE, 1472, -2)],
     [text |-> <<"2", ".", "1", "5">>,                     value |-> Finite(FALSE, 215, -2)],
     [text |-> <<"i", "n", "f">>,                          value |-> Infinite(FALSE)] >>

\* The cell elements of document d, in document order.
DocCells(d) ==
  [i \in 1..d.n |->
     IF d.special > 0 /\ i = d.n - d.at + 1
       THEN SpecialCells[d.special]
       ELSE PlainCell(i)]

\* The opening and closing tags of a cell element in each style.
TagStyles ==
  << [open  |-> <<"<", "t", "d", ">">>,
      close |-> <<"<", "/", "t", "d", ">">>],
     [open  |-> <<"<", "T", "D", ">">>,
      close |-> <<"<", "/", "T", "D", ">">>],
     [open  |-> <<"<", "t", "d", " ", "c", "l", "a", "s", "s", "=", "\"", "x", "\"", ">">>,
      close |-> <<"<", "/", "t", "d", ">">>],
     [open  |-> <<"<", "T", "d", " ", "a", "l", "i", "g", "n", "=", "r", "i", "g", "h", "t", ">">>,
      close |-> <<"<", "/", "t", "D", ">">>] >>

StampText ==
  <<"O", "c", "t", " ", "0", "1", ",", " ", "2", "0", "2", "5", " ", "1", "0", ":", "1", "5">>

LaterStampText == <<"O", "c", "t", " ", "0", "2">>

\* The captions: the text before the table, the text after it, and the
\* spans that follow each "Last Updated: " of the document up to the next
\* "<" or line feed (or the end), in document order.
Captions ==
  << \* 1: one caption in a paragraph
     [head  |-> <<"<", "p", ">">> \o CaptionLiteral \o StampText \o <<"<", "/", "p", ">", "\n">>,
      tail  |-> <<>>,
      spans |-> <<StampText>>],
     \* 2: no caption
     [head  |-> <<>>,
      tail  |-> <<>>,
      spans |-> <<>>],
     \* 3: a caption with nothing after it, then a caption with a text
     [head  |-> <<"<", "p", ">">> \o CaptionLiteral \o <<"<", "/", "p", ">", "\n">>
                  \o <<"<", "p", ">">> \o CaptionLiteral \o LaterStampText \o <<"<", "/", "p", ">", "\n">>,
      tail  |-> <<>>,
      spans |-> <<<<>>, LaterStampText>>],
     \* 4: one caption whose text is wrapped in markup
     [head  |-> <<"<", "p", ">">> \o CaptionLiteral \o <<"<", "b", ">">> \o StampText
                  \o <<"<", "/", "b", ">", "<", "/", "p", ">", "\n">>,
      tail  |-> <<>>,
      spans |-> <<<<>>>>],
     \* 5: one caption that ends the document
     [head  |-> <<>>,
      tail  |-> CaptionLiteral \o StampText,
      spans |-> <<StampText>>],
     \* 6: one caption ended by a line feed
     [head  |-> CaptionLiteral \o StampText \o <<"\n">>,
      tail  |-> <<>>,
      spans |-> <<StampText>>] >>

TableOpen == <<"<", "t", "a", "b", "l", "e", ">", "\n">>

TableClose == <<"<", "/", "t", "a", "b", "l", "e", ">", "\n">>

TrOpen == <<"<", "t", "r", ">">>

TrClose == <<"<", "/", "t", "r", ">", "\n">>

\* The text of document d.
Render(d) ==
  LET style == TagStyles[d.style]
      cs    == DocCells(d)
      piece(i) == (IF ColumnOf(i) = 0 THEN TrOpen ELSE <<>>)
                    \o style.open \o cs[i].text \o style.close
                    \o (IF ColumnOf(i) = RowWidth - 1 \/ i = d.n THEN TrClose ELSE <<>>)
  IN  Captions[d.caption].head
        \o TableOpen \o Concat([i \in 1..d.n |-> piece(i)], 1, d.n) \o TableClose
        \o Captions[d.caption].tail

Doc(n, style, caption, special, at) ==
  [n |-> n, style |-> style, caption |-> caption, special |-> special, at |-> at]

(***************************************************************************)
(* Responses: what the GET of a cycle produces. [kind |-> "error"] is a    *)
(* request that raised (no connection, a broken transfer); a response has  *)
(* a status and, as its body, the text of the document doc.                *)
(***************************************************************************)
NetworkError == [kind |-> "error", status |-> 0, doc |-> Doc(0, 1, 2, 0, 0)]

Response(status, d) == [kind |-> "response", status |-> status, doc |-> d]

\* Tables of every length up to MaxCells.
PlainDocs == {Doc(n, 1, 1, 0, 0) : n \in 0..MaxCells}

\* Every tag style and caption, on a table of one row, on one that has a
\* cell more and on one of two rows.
StyledDocs ==
  {Doc(n, style, caption, 0, 0) :
     n \in {RowWidth, RowWidth + 1, 2 * RowWidth},
     style \in 1..Len(TagStyles), caption \in 1..Len(Captions)}

\* Every special cell at every place of the last row, in a table of one
\* row and in one of two rows, and there also at the end of the first row.
SpecialDocs ==
  {Doc(RowWidth, 1, 1, special, at) :
     special \in 1..Len(SpecialCells), at \in 1..RowWidth}
    \cup {Doc(2 * RowWidth, 1, 1, special, at) :
            special \in 1..Len(SpecialCells), at \in 1..(RowWidth + 1)}

\* Zones that zone_map does not hold: known zones written differently, and
\* a zone that does not exist.
UnknownZones == {"lz_north", "lz_west", "HB_PAN ", "HB_EAST"}

KnownZones == {ZONES[i] : i \in 1..Len(ZONES)}

PipelineResponses ==
  {NetworkError}
    \cup {Response(200, d) : d \in PlainDocs \cup StyledDocs \cup SpecialDocs}
    \cup {Response(status, Doc(n, 1, 1, 0, 0)) :
            status \in {404, 500}, n \in {0, RowWidth}}

\* The responses of the cycles of a running entry: a failed request, two
\* different good tables (the second without a caption), a table that is a
\* cell short, tables with an unparseable price, and responses with an
\* error status (one with a whole table as its body).
CycleResponses ==
  {NetworkError,
   Response(200, Doc(RowWidth, 1, 1, 0, 0)),
   Response(200, Doc(2 * RowWidth, 2, 2, 0, 0)),
   Response(200, Doc(RowWidth - 1, 1, 1, 0, 0)),
   Response(200, Doc(2 * RowWidth, 1, 1, 1, 4)),
   Response(200, Doc(2 * RowWidth, 1, 1, 1, 15)),
   Response(503, Doc(3 * RowWidth, 1, 6, 0, 0)),
   Response(404, Doc(0, 1, 2, 0, 0))}

Documents == {r.doc : r \in PipelineResponses \cup CycleResponses}

\* What the two regular expressions find in each document (each document is
\* rendered and searched once).
Extracted == [d \in Documents |-> Extract(Render(d))]

\* ERCOTDataUpdateCoordinator._async_update_data: the GET, response.text()
\* whatever the status of the response, and the cycle on that text.
async_update_data(zone, response) ==
  IF response.kind = "error" THEN Raise("ClientError")
  ELSE Select(zone, Extracted[response.doc])

(***************************************************************************)
(* The config flow: ERCOTConfigFlow.async_step_user.                       *)
(***************************************************************************)
\* No entity, no zone: Python's None where a string is expected.
NoEntity == "None"

ExportEntities == {"sensor.grid_export"}

\* The provider choices of the form, each with a custom percentage the
\* form submits with it (90 is the default of the field). A percentage is
\* a number, whole or not: the number box of the form hands on a float.
ProviderInputs ==
  {[buyback_provider |-> "Tesla Electric", custom_percent |-> Number(90)],
   [buyback_provider |-> "Full Rate",      custom_percent |-> Number(90)],
   [buyback_provider |-> "Custom",         custom_percent |-> Number(50)]}

\* What the form of the set-up step can submit: a zone of the dropdown, a
\* provider, and an export entity or none (the key is then missing).
UserInputs ==
  LET required == {[zone |-> ZoneOptions[i]] @@ p :
                     i \in 1..Len(ZoneOptions), p \in ProviderInputs}
  IN  required \cup {u @@ [export_entity |-> e] : u \in required, e \in ExportEntities}

\* The percentage that the step stores for the provider chosen.
sellback_percent(user_input) ==
  IF user_input.buyback_provider = "Tesla Electric" THEN Number(90)
  ELSE IF user_input.buyback_provider = "Custom"
    THEN Get(user_input, "custom_percent", Number(100))
  ELSE Number(100)

\* The data of the entry that the step creates.
EntryData(user_input) ==
  [sellback_percent |-> sellback_percent(user_input)] @@ user_input

(***************************************************************************)
(* The state.                                                              *)
(***************************************************************************)
VARIABLES
  entry,        \* the data of the config entry, None before the set-up step
  coordinator,  \* the ERCOTDataUpdateCoordinator of the entry, None if none
  registered,   \* the sensors of the entry are added
  refreshing,   \* the coordinator of the entry whose _async_update_data
                \* waits for the response, None when none does
  orphaned,     \* the coordinators that were popped from hass.data while
                \* their _async_update_data waited for the response, and
                \* still wait: nothing refers to them any more
  entry_state,  \* the state of the config entry (ConfigEntryState)
  fetched,      \* the response of the last cycle of the coordinator of
                \* the entry, None before the first
  outcome,      \* what that cycle raised
  good,         \* the response of its last cycle that returned a reading
  observed,     \* what a consumer last read from the sensors
  cycles,       \* the number of cycles run, those of orphaned
                \* coordinators included
  earnings,     \* the ERCOTEarningsSensor of the entry, None if none
  earnings_state, \* the state of that sensor in Home Assistant, as the
                \* sensor wrote it last (async_write_ha_state), None if
                \* there is no such sensor
  export_entity_state, \* the state of the export entity in hass.states
  trace,        \* of that last cycle: the earnings sensor before it, the
                \* export state during it, whether the coordinator called
                \* its listeners; the last export state that the earnings
                \* sensor read as a number; and the earnings sensor that
                \* the last unload dropped
  hass          \* Home Assistant with several entries of the integration:
                \* its config entries, hass.data[DOMAIN], the earnings
                \* sensors, the coordinators that wait for a response
                \* (those of the entries, and those that were popped while
                \* they waited), the state of the export entity, the cycles
                \* run, and the last step taken

vars ==
  <<entry, coordinator, registered, refreshing, orphaned, entry_state, fetched, outcome,
    good, observed, cycles, earnings, earnings_state, export_entity_state, trace, hass>>

MaxCycles == 3

\* ERCOTDataUpdateCoordinator.__init__, as async_setup_entry calls it.
NewCoordinator(data) ==
  [zone                |-> data.zone,
   export_entity       |-> Get(data, "export_entity", NoEntity),
   sellback_percent    |-> Get(data, "sellback_percent", Number(90)),
   data                |-> None,
   last_update_success |-> TRUE]

(***************************************************************************)
(* The arithmetic of the sensors.                                          *)
(***************************************************************************)
\* float(n) for an integer n.
FromInt(n) == RoundToDouble(n < 0, Limbs(IF n < 0 THEN 0 - n ELSE n), 0, FALSE)

\* The double of a number: of a value of ParseFloat, of a percentage.
ToDouble(v) ==
  IF v.kind /= "finite" \/ "significand" \in DOMAIN v THEN v
  ELSE IF v.mant = 0 THEN Double(v.neg, <<>>, 0)
  ELSE DecimalToDouble(v.neg, Limbs(v.mant), v.exp, FALSE)

\* x * y
Times(x, y) ==
  IF x.kind = "nan" \/ y.kind = "nan" THEN NaN
  ELSE IF x.kind = "inf" \/ y.kind = "inf"
    THEN IF IsZero(x) \/ IsZero(y) THEN NaN ELSE Infinite(x.neg /= y.neg)
  ELSE RoundToDouble(x.neg /= y.neg, Mul(x.significand, y.significand),
                     x.exponent + y.exponent, FALSE)

\* x / n for an integer n, 0 < n < Base.
DividedBy(x, n) ==
  IF x.kind /= "finite" THEN x
  ELSE RoundQuotient(x.neg, WithSticky(DivSmall(ShiftLeft(x.significand, 18), n)),
                     x.exponent - 18, FALSE)

\* The decimal of `digits` * 10^-ndigits, as the double nearest to it. A
\* decimal below 10^9 * 10^-ndigits has nine significant digits or fewer.
RoundedTo(neg, digits, ndigits) ==
  IF Below(digits, Limbs(10^9)) THEN Normalized(neg, ToInt(digits), 0 - ndigits)
  ELSE Canonical(DecimalToDouble(neg, digits, 0 - ndigits, FALSE))

\* round(x, ndigits) of Python: the decimal of ndigits digits after the
\* point nearest to x (ties to even), as the double nearest to it.
Round(x, ndigits) ==
  IF x.kind /= "finite" THEN x
  ELSE RoundedTo(x.neg, RoundScaled(x.significand, x.exponent, ndigits), ndigits)

\* -x
Negated(x) == IF x.kind = "nan" THEN x ELSE [x EXCEPT !.neg = ~x.neg]

\* The double nearest to sum.n * 2^e, negative when sum.neg.
RoundSum(sum, e) == RoundToDouble(sum.neg, sum.n, e, FALSE)

\* hi + lo for two finite doubles that are not zero, with the significands
\* a of hi and b of lo at the exponent of lo.
PlusAligned(hi, lo, a, b) ==
  IF hi.neg /= lo.neg /\ a = b THEN Double(FALSE, <<>>, 0)
  ELSE RoundSum(IF hi.neg = lo.neg THEN [neg |-> hi.neg, n |-> Add(a, b)]
                ELSE IF Below(a, b) THEN [neg |-> lo.neg, n |-> Sub(b, a)]
                ELSE [neg |-> hi.neg, n |-> Sub(a, b)],
                lo.exponent)

\* hi + lo for two finite doubles that are not zero, the exponent of hi not
\* below that of lo. Of two doubles whose exponents are more than 64 apart
\* the smaller one is less than a quarter of the last bit of the larger.
PlusOrdered(hi, lo) ==
  IF hi.exponent - lo.exponent > 64 THEN hi
  ELSE PlusAligned(hi, lo, ShiftLeft(hi.significand, hi.exponent - lo.exponent),
                   lo.significand)

\* x + y
Plus(x, y) ==
  IF x.kind = "nan" \/ y.kind = "nan" THEN NaN
  ELSE IF x.kind = "inf"
    THEN IF y.kind = "inf" /\ x.neg /= y.neg THEN NaN ELSE x
  ELSE IF y.kind = "inf" THEN y
  ELSE IF IsZero(x) /\ IsZero(y) THEN Double(x.neg /\ y.neg, <<>>, 0)
  ELSE IF IsZero(x) THEN y
  ELSE IF IsZero(y) THEN x
  ELSE PlusOrdered(IF x.exponent >= y.exponent THEN x ELSE y,
                   IF x.exponent >= y.exponent THEN y ELSE x)

\* x - y
Minus(x, y) == Plus(x, Negated(y))

\* x < 0
IsNegative(x) == x.kind /= "nan" /\ x.neg /\ ~IsZero(x)

\* x <= y
AtMost(x, y) ==
  /\ x.kind /= "nan" /\ y.kind /= "nan"
  /\ ~IsNegative(Minus(y, x))

(***************************************************************************)
(* The sensors: what native_value returns.                                 *)
(***************************************************************************)
\* ERCOTPriceSensor.native_value
price_native_value(c) == Get(c.data, "price_mwh", None)

\* ERCOTTimestampSensor.native_value
timestamp_native_value(c) == Get(c.data, "timestamp", NoText)

\* A variant of price_cents_kwh_native_value that rounds to one decimal.
price_cents_kwh_one_decimal(c) ==
  LET price_mwh == ToDouble(Get(c.data, "price_mwh", Finite(FALSE, 0, 0)))
  IN  Round(Times(DividedBy(price_mwh, 1000), FromInt(100)), 1)

\* ERCOTPriceCentsKwhSensor.native_value:
\* round((price_mwh / 1000.0) * 100, 2)
price_cents_kwh_native_value(c) ==
  LET price_mwh == ToDouble(Get(c.data, "price_mwh", Finite(FALSE, 0, 0)))
  IN  Round(Times(DividedBy(price_mwh, 1000), FromInt(100)), 2)

\* A variant of sellback_rate_native_value that rounds to four decimals.
sellback_rate_four_decimals(c) ==
  LET price_mwh == ToDouble(Get(c.data, "price_mwh", Finite(FALSE, 0, 0)))
      percent   == DividedBy(ToDouble(c.sellback_percent), 100)
  IN  Round(Times(DividedBy(price_mwh, 1000), percent), 4)

\* ERCOTSellbackRateSensor.native_value:
\* round((price_mwh / 1000.0) * percent, 5)
sellback_rate_native_value(c) ==
  LET price_mwh == ToDouble(Get(c.data, "price_mwh", Finite(FALSE, 0, 0)))
      percent   == DividedBy(ToDouble(c.sellback_percent), 100)
  IN  Round(Times(DividedBy(price_mwh, 1000), percent), 5)

\* A variant of sellback_cents_native_value that takes the cents of the rate
\* that the sellback rate sensor shows: round(round(rate, 5) * 100, 2).
sellback_cents_of_shown_rate(c) ==
  LET price_mwh == ToDouble(Get(c.data, "price_mwh", Finite(FALSE, 0, 0)))
      percent   == DividedBy(ToDouble(c.sellback_percent), 100)
      shown     == Round(Times(DividedBy(price_mwh, 1000), percent), 5)
  IN  Round(Times(ToDouble(shown), FromInt(100)), 2)

\* ERCOTSellbackCentsSensor.native_value:
\* round((price_mwh / 1000.0) * percent * 100, 2)
sellback_cents_native_value(c) ==
  LET price_mwh == ToDouble(Get(c.data, "price_mwh", Finite(FALSE, 0, 0)))
      percent   == DividedBy(ToDouble(c.sellback_percent), 100)
  IN  Round(Times(Times(DividedBy(price_mwh, 1000), percent), FromInt(100)), 2)

\* What the three derived sensors show for coordinator c.
Derived(c) ==
  [price_cents_kwh |-> price_cents_kwh_native_value(c),
   sellback_rate   |-> sellback_rate_native_value(c),
   sellback_cents  |-> sellback_cents_native_value(c)]

\* The prices that a reading can hold (those that a cell of a document can
\* give) and the 0 that the sensors take for a reading without a price; the
\* percentages that an entry can hold.
DocumentPrices ==
  (UNION {{DocCells(d)[i].value : i \in 1..d.n} : d \in Documents} \ {ValueError})
    \cup {Finite(FALSE, 0, 0)}

Percents == {sellback_percent(u) : u \in UserInputs}

\* The percentages that the form takes for the provider "Custom".
MinPercent == 1

MaxPercent == 100

\* The entries whose metrics are followed, one for each custom percentage,
\* and the responses of their set-up: a table for each of eight prices in
\* the cell of the zone.
MetricsEntries ==
  {EntryData([zone |-> DEFAULT_ZONE, buyback_provider |-> "Custom",
              custom_percent |-> Number(q)]) :
     q \in MinPercent..MaxPercent}

MetricsDocs ==
  {Doc(RowWidth, 1, 1, special, RowWidth - zone_map[DEFAULT_ZONE]) :
     special \in {5, 7, 9, 10, 11, 12, 13}}
    \cup {Doc(RowWidth, 1, 1, 0, 0)}

MetricsResponses == {Response(200, d) : d \in MetricsDocs}

MetricsPrices ==
  {DocCells(d)[zone_map[DEFAULT_ZONE] + 1].value : d \in MetricsDocs}

\* Derived for every price and percentage: the arithmetic of each is done
\* once.
DerivedTable ==
  [k \in {[data |-> [price_mwh |-> v], sellback_percent |-> sp] :
            v \in DocumentPrices, sp \in Percents}
          \cup {[data |-> [price_mwh |-> v], sellback_percent |-> Number(q)] :
                  v \in MetricsPrices, q \in MinPercent..MaxPercent}
     |-> Derived(k)]

\* Derived(c), from the table.
Shown(c) ==
  DerivedTable[[data             |-> [price_mwh |-> Get(c.data, "price_mwh", Finite(FALSE, 0, 0))],
                sellback_percent |-> c.sellback_percent]]

(***************************************************************************)
(* The earnings sensor: ERCOTEarningsSensor. The state of the export       *)
(* entity in hass.states is a text, NoText when the entity has no state    *)
(* (hass.states.get returns None).                                         *)
(***************************************************************************)
Unknown == <<"u", "n", "k", "n", "o", "w", "n">>

Unavailable == <<"u", "n", "a", "v", "a", "i", "l", "a", "b", "l", "e">>

\* ERCOTEarningsSensor.__init__: _last_export and _total.
NewEarningsSensor == [last_export |-> FromInt(0), total |-> FromInt(0)]

\* The rate per kWh: price_kwh = price_mwh / 1000, times the share
\* sellback_percent / 100.
Rate(price_mwh, percent) ==
  Times(DividedBy(ToDouble(price_mwh), 1000), DividedBy(ToDouble(percent), 100))

\* A variant of Rate that takes the price for one per kWh.
RatePerKwh(price_mwh, percent) ==
  Times(ToDouble(price_mwh), DividedBy(ToDouble(percent), 100))

\* The delta that is credited: current_export itself when delta, the
\* difference to the last reading, is below zero (the counter was reset).
Reset(current_export, delta) == IF IsNegative(delta) THEN current_export ELSE delta

\* delta = current_export - self._last_export, after the reset rule.
Delta(current_export, last_export) ==
  Reset(current_export, Minus(current_export, last_export))

\* A variant of Credited that credits the difference to the last reading
\* as it is, below zero or not.
CreditedSigned(sensor, current_export, rate) ==
  [last_export |-> current_export,
   total       |-> Plus(sensor.total,
                        Times(Minus(current_export, sensor.last_export), rate))]

\* self._total += delta * rate and self._last_export = current_export.
Credited(sensor, current_export, rate) ==
  [last_export |-> current_export,
   total       |-> Plus(sensor.total,
                        Times(Delta(current_export, sensor.last_export), rate))]

\* A variant of Credit without the reset rule.
CreditSigned(sensor, state, price_mwh, percent) ==
  IF ParseFloat(state) = ValueError THEN sensor
  ELSE CreditedSigned(sensor, ToDouble(ParseFloat(state)), Rate(price_mwh, percent))

\* A variant of Credit at the rate that takes the price for one per kWh.
CreditPerKwh(sensor, state, price_mwh, percent) ==
  IF ParseFloat(state) = ValueError THEN sensor
  ELSE Credited(sensor, ToDouble(ParseFloat(state)), RatePerKwh(price_mwh, percent))

\* A variant of Credit whose first update, of a sensor that has no reading
\* yet, takes the reading without crediting it.
CreditAfterFirst(sensor, state, price_mwh, percent) ==
  IF ParseFloat(state) = ValueError THEN sensor
  ELSE IF IsZero(sensor.last_export) /\ IsZero(sensor.total)
    THEN [last_export |-> ToDouble(ParseFloat(state)), total |-> sensor.total]
  ELSE Credited(sensor, ToDouble(ParseFloat(state)), Rate(price_mwh, percent))

\* The update of _handle_coordinator_update for an export state that is
\* not skipped: current_export = float(export_state.state), the delta to
\* the last reading, the rate, and the new _total and _last_export. When
\* float() raises, the callback ends there and the sensor is as it was.
Credit(sensor, state, price_mwh, percent) ==
  IF ParseFloat(state) = ValueError THEN sensor
  ELSE Credited(sensor, ToDouble(ParseFloat(state)), Rate(price_mwh, percent))

\* The states that the export entity takes: none, the two that are
\* skipped, readings of its counter, and a text that is not a number.
ExportReadings ==
  {<<"0">>, <<"1", "0">>, <<"1", "0", "0">>, <<"1", "5", "0">>, <<"5", "0", "0">>}

ExportStates == {NoText, Unknown, Unavailable, <<"o", "n">>} \cup ExportReadings

\* Those of them that the update reads: not skipped, and taken by float().
ReadableStates ==
  {x \in ExportStates \ {NoText, Unknown, Unavailable} : ParseFloat(x) /= ValueError}

\* The entries whose earnings are followed, with and without an export
\* entity, and the responses of their cycles: a failed request, a table
\* with the price 20 for the zone, a table of two rows with the price -5.5
\* for it, and a table that is a cell short.
EarningsEntries ==
  LET u == [zone |-> DEFAULT_ZONE, buyback_provider |-> "Tesla Electric",
            custom_percent |-> Number(90)]
  IN  {EntryData(u)} \cup {EntryData(u @@ [export_entity |-> e]) : e \in ExportEntities}

EarningsDocs ==
  {Doc(RowWidth, 1, 1, 9, RowWidth - zone_map[DEFAULT_ZONE]),
   Doc(2 * RowWidth, 1, 1, 10, RowWidth - zone_map[DEFAULT_ZONE])}

EarningsResponses ==
  {NetworkError, Response(200, Doc(RowWidth - 1, 1, 1, 0, 0))}
    \cup {Response(200, d) : d \in EarningsDocs}

\* The zones of the entries that are followed side by side, the table of
\* their cycles, which has the price 20 for the default zone, and the
\* prices that it has for these zones.
HassZones == {DEFAULT_ZONE, "LZ_WEST"}

HassDoc == Doc(RowWidth, 1, 1, 9, RowWidth - zone_map[DEFAULT_ZONE])

HassPrices == {DocCells(HassDoc)[zone_map[z] + 1].value : z \in HassZones}

\* Tables whose cell of the default zone is a text that float() takes for
\* no finite number, "nan" and "inf", and the responses of the cycles of an
\* entry that reads them: these tables and the table with the price 20.
NonFiniteDocs ==
  {Doc(RowWidth, 1, 1, special, RowWidth - zone_map[DEFAULT_ZONE]) : special \in {5, 14}}

NonFiniteResponses == {Response(200, d) : d \in NonFiniteDocs \cup {HassDoc}}

\* The prices and the percentages that the coordinators of these entries hold.
EarningsPrices ==
  {SpecialCells[d.special].value : d \in EarningsDocs \cup NonFiniteDocs} \cup HassPrices

EarningsPercents == {e.sellback_percent : e \in EarningsEntries}

\* Credit for every sensor that n updates or fewer lead to, every export
\* state that is not skipped, and every price and percentage: the
\* arithmetic of each is done once.
RECURSIVE CreditTableAfter(_)
CreditTableAfter(n) ==
  LET before == IF n <= 0 THEN {} ELSE Range(CreditTableAfter(n - 1))
  IN  [k \in {[sensor |-> s, state |-> x, price_mwh |-> p, percent |-> q] :
                s \in before \cup {NewEarningsSensor},
                x \in ExportStates \ {NoText, Unknown, Unavailable},
                p \in EarningsPrices, q \in EarningsPercents}
         |-> Credit(k.sensor, k.state, k.price_mwh, k.percent)]

\* A sensor is updated after every cycle but the first, at most.
CreditTable == CreditTableAfter(MaxCycles - 2)

\* round(self._total, 2) for every sensor of the table.
EarningsTable ==
  [s \in Range(CreditTable) \cup {NewEarningsSensor} |-> Round(s.total, 2)]

\* A variant of _handle_coordinator_update that takes an export entity
\* without a reading for a counter at 0.
handle_coordinator_update_zero(sensor, export_state, c) ==
  CreditTable[[sensor    |-> sensor,
               state     |-> IF export_state = NoText \/ export_state \in {Unknown, Unavailable}
                               THEN <<"0">> ELSE export_state,
               price_mwh |-> Get(c.data, "price_mwh", Finite(FALSE, 0, 0)),
               percent   |-> c.sellback_percent]]

\* ERCOTEarningsSensor._handle_coordinator_update: nothing without an
\* export entity, without a state of it, or with a state that is "unknown"
\* or "unavailable"; else the update, from the table.
handle_coordinator_update(sensor, export_state, c) ==
  IF c.export_entity = NoEntity THEN sensor
  ELSE IF export_state = NoText \/ export_state \in {Unknown, Unavailable} THEN sensor
  ELSE CreditTable[[sensor    |-> sensor,
                    state     |-> export_state,
                    price_mwh |-> Get(c.data, "price_mwh", Finite(FALSE, 0, 0)),
                    percent   |-> c.sellback_percent]]

\* ERCOTEarningsSensor.native_value
earnings_native_value(sensor) == EarningsTable[sensor]

\* The state "unavailable" of a sensor whose states are numbers; that of
\* the timestamp sensor, whose states are texts, is the text Unavailable.
STATE_UNAVAILABLE == [kind |-> "unavailable"]

\* The state that async_write_ha_state() writes for the earnings sensor,
\* when the sensor is added and at the end of _handle_coordinator_update:
\* its native_value while it is available, which a CoordinatorEntity is
\* while the last refresh of its coordinator c succeeded, else
\* "unavailable".
async_write_ha_state(sensor, c) ==
  IF c.last_update_success THEN earnings_native_value(sensor) ELSE STATE_UNAVAILABLE

(***************************************************************************)
(* The actions.                                                            *)
(***************************************************************************)
\* The states of a config entry that the steps here pass through (Home
\* Assistant's ConfigEntryState): before the set-up and after the unload,
\* from the call of async_setup_entry to the adding of the sensors, after a
\* first refresh that raised, with the sensors added, between the removal
\* of the sensors and the pop of the coordinator, and after an unload of
\* the platform that returned false.
NOT_LOADED == "not_loaded"
SETUP_IN_PROGRESS == "setup_in_progress"
SETUP_RETRY == "setup_retry"
LOADED == "loaded"
UNLOAD_IN_PROGRESS == "unload_in_progress"
FAILED_UNLOAD == "failed_unload"

\* Home Assistant before any entry of the integration is made: no config
\* entry, nothing in hass.data[DOMAIN], no sensor, no coordinator that waits
\* for a response, stored or popped, no state of the export entity, no cycle
\* run and no step taken.
NoHass ==
  [config_entries |-> <<>>,
   data           |-> <<>>,
   sensors        |-> <<>>,
   refreshing     |-> <<>>,
   orphaned       |-> <<>>,
   states         |-> NoText,
   cycles         |-> 0,
   last           |-> [step |-> "None", entry_id |-> 0, result |-> "None", submitted |-> None]]

NoTrace ==
  [before |-> None, export |-> NoText, notified |-> FALSE, read |-> NoText, kept |-> None]

Init ==
  /\ entry = None
  /\ coordinator = None
  /\ registered = FALSE
  /\ refreshing = None
  /\ orphaned = <<>>
  /\ entry_state = NOT_LOADED
  /\ fetched = None
  /\ outcome = NoException
  /\ good = None
  /\ observed = None
  /\ cycles = 0
  /\ earnings = None
  /\ earnings_state = None
  /\ export_entity_state = NoText
  /\ trace = NoTrace
  /\ hass = NoHass

\* ERCOTConfigFlow.async_step_user with a submitted form: the entry is
\* created unless one with the same unique id (the zone) exists.
async_step_user(user_input) ==
  /\ entry = None
  /\ entry' = EntryData(user_input)
  /\ UNCHANGED <<coordinator, registered, fetched, outcome, good, observed, cycles,
                 earnings, earnings_state, export_entity_state, trace>>
  /\ UNCHANGED <<refreshing, orphaned, entry_state, hass>>

\* async_setup_entry up to its first await: Home Assistant has put the
\* entry in the state of a set-up in progress, the coordinator is made from
\* the data of the entry, and its first refresh waits for the response in
\* _async_update_data. Nothing is in hass.data yet.
async_setup_entry ==
  /\ entry /= None
  /\ entry_state \in {NOT_LOADED, SETUP_RETRY}
  /\ cycles + Len(orphaned) < MaxCycles
  /\ refreshing' = NewCoordinator(entry)
  /\ entry_state' = SETUP_IN_PROGRESS
  /\ UNCHANGED <<entry, coordinator, registered, orphaned, fetched, outcome, good,
                 observed, cycles, earnings, earnings_state, export_entity_state,
                 trace, hass>>

\* A variant of async_config_entry_first_refresh that stores the
\* coordinator and goes on to the sensors whether the refresh raised or not.
async_config_entry_first_refresh_unready(response) ==
  /\ entry_state = SETUP_IN_PROGRESS
  /\ refreshing /= None
  /\ coordinator = None
  /\ LET result == async_update_data(refreshing.zone, response)
     IN  /\ fetched' = response
         /\ outcome' = result.raised
         /\ cycles' = cycles + 1
         /\ IF outcome' /= NoException
              THEN /\ coordinator' = [refreshing EXCEPT !.last_update_success = FALSE]
                   /\ UNCHANGED good
              ELSE /\ coordinator' = [refreshing EXCEPT !.data = result.value]
                   /\ good' = response
  /\ refreshing' = None
  /\ trace' = [trace EXCEPT !.before = earnings, !.export = export_entity_state,
                            !.notified = FALSE, !.read = NoText]
  /\ UNCHANGED <<entry, registered, orphaned, entry_state, observed, earnings,
                 earnings_state, export_entity_state, hass>>

\* async_setup_entry from the response that its first refresh waited for
\* to the storing of the coordinator: when the refresh raises, the set-up
\* ends there (ConfigEntryNotReady, to be tried again) and the coordinator
\* is dropped, else it is stored in hass.data. The sensors are not added
\* yet.
async_config_entry_first_refresh(response) ==
  /\ entry_state = SETUP_IN_PROGRESS
  /\ refreshing /= None
  /\ coordinator = None
  /\ LET result == async_update_data(refreshing.zone, response)
     IN  /\ fetched' = response
         /\ outcome' = result.raised
         /\ cycles' = cycles + 1
         /\ IF outcome' /= NoException
              THEN /\ entry_state' = SETUP_RETRY
                   /\ UNCHANGED <<coordinator, good>>
              ELSE /\ coordinator' = [refreshing EXCEPT !.data = result.value]
                   /\ good' = response
                   /\ UNCHANGED entry_state
  /\ refreshing' = None
  /\ trace' = [trace EXCEPT !.before = earnings, !.export = export_entity_state,
                            !.notified = FALSE, !.read = NoText]
  /\ UNCHANGED <<entry, registered, orphaned, observed, earnings, earnings_state,
                 export_entity_state, hass>>

\* A variant of sensor_async_setup_entry that adds the earnings sensor to
\* every entry, with an export entity or without.
sensor_async_setup_entry_always ==
  /\ entry_state = SETUP_IN_PROGRESS
  /\ coordinator /= None
  /\ registered' = TRUE
  /\ earnings' = NewEarningsSensor
  /\ earnings_state' = async_write_ha_state(NewEarningsSensor, coordinator)
  /\ entry_state' = LOADED
  /\ UNCHANGED <<entry, coordinator, refreshing, orphaned, fetched, outcome, good, observed,
                 cycles, export_entity_state, trace, hass>>

\* The end of async_setup_entry, the forwarding of the entry (whose
\* coordinator is stored) to the sensor platform: sensor.py's
\* async_setup_entry takes the coordinator from hass.data and adds the
\* sensors, the earnings sensor only with an export
\* entity. Each sensor writes its state as it is added. The sensors listen
\* to the coordinator from then on, and the entry is loaded.
sensor_async_setup_entry ==
  /\ entry_state = SETUP_IN_PROGRESS
  /\ coordinator /= None
  /\ registered' = TRUE
  /\ earnings' = IF coordinator.export_entity /= NoEntity
                   THEN NewEarningsSensor ELSE None
  /\ earnings_state' = IF coordinator.export_entity /= NoEntity
                         THEN async_write_ha_state(NewEarningsSensor, coordinator)
                         ELSE None
  /\ entry_state' = LOADED
  /\ UNCHANGED <<entry, coordinator, refreshing, orphaned, fetched, outcome, good, observed,
                 cycles, export_entity_state, trace, hass>>

\* A refresh of the coordinator starts (DataUpdateCoordinator, at the
\* interval, while sensors listen and no refresh of it is under way): it
\* waits for the response in _async_update_data.
async_refresh ==
  /\ registered
  /\ refreshing = None
  /\ cycles + Len(orphaned) < MaxCycles
  /\ refreshing' = coordinator
  /\ UNCHANGED <<entry, coordinator, registered, orphaned, entry_state, fetched, outcome,
                 good, observed, cycles, earnings, earnings_state,
                 export_entity_state, trace, hass>>

\* A variant of Refresh that drops the data when the cycle raised.
RefreshForgetting(response) ==
  /\ refreshing /= None
  /\ coordinator /= None
  /\ LET result == async_update_data(coordinator.zone, response)
     IN  /\ fetched' = response
         /\ outcome' = result.raised
         /\ cycles' = cycles + 1
         /\ IF outcome' /= NoException
              THEN /\ coordinator' = [coordinator EXCEPT !.data = None,
                                                         !.last_update_success = FALSE]
                   /\ UNCHANGED good
              ELSE /\ coordinator' = [coordinator EXCEPT !.data = result.value,
                                                         !.last_update_success = TRUE]
                   /\ good' = response
         /\ LET notified == /\ registered
                            /\ outcome' = NoException \/ coordinator.last_update_success
            IN  /\ earnings' = IF notified /\ earnings /= None
                                 THEN handle_coordinator_update(earnings, export_entity_state,
                                                                coordinator')
                                 ELSE earnings
                /\ earnings_state' =
                     IF /\ notified /\ earnings /= None
                        /\ ~(/\ coordinator.export_entity /= NoEntity
                             /\ export_entity_state /= NoText
                             /\ export_entity_state \notin {Unknown, Unavailable}
                             /\ ParseFloat(export_entity_state) = ValueError)
                       THEN async_write_ha_state(earnings', coordinator')
                       ELSE earnings_state
                /\ trace' = [trace EXCEPT !.before = earnings, !.export = export_entity_state,
                                          !.notified = notified,
                                          !.read = IF /\ notified /\ earnings /= None
                                                      /\ export_entity_state \in ReadableStates
                                                     THEN export_entity_state ELSE @]
  /\ refreshing' = None
  /\ UNCHANGED <<entry, registered, observed, export_entity_state>>
  /\ UNCHANGED <<orphaned, entry_state, hass>>

\* The refresh of the stored coordinator from the response that it waited
\* for (DataUpdateCoordinator): the data becomes what _async_update_data
\* returned; when it raised, the data stays. The coordinator then calls its
\* listeners, the _handle_coordinator_update of each sensor there is by
\* then (none when the platform was unloaded while the refresh waited and
\* the coordinator is not popped yet), after a refresh that succeeded and after the first one that failed since
\* a refresh succeeded. The earnings sensor reads the state that the export
\* entity has by then, and writes its own state at the end of its update;
\* when float() raises on the state of the export entity the update ends
\* there, nothing is written, and the state of the earnings sensor stays
\* what it wrote last. It is the last listener: the other sensors have
\* written theirs by then.
Refresh(response) ==
  /\ refreshing /= None
  /\ coordinator /= None
  /\ LET result == async_update_data(coordinator.zone, response)
     IN  /\ fetched' = response
         /\ outcome' = result.raised
         /\ cycles' = cycles + 1
         /\ IF outcome' /= NoException
              THEN /\ coordinator' = [coordinator EXCEPT !.last_update_success = FALSE]
                   /\ UNCHANGED good
              ELSE /\ coordinator' = [coordinator EXCEPT !.data = result.value,
                                                         !.last_update_success = TRUE]
                   /\ good' = response
         /\ LET notified == /\ registered
                            /\ outcome' = NoException \/ coordinator.last_update_success
            IN  /\ earnings' = IF notified /\ earnings /= None
                                 THEN handle_coordinator_update(earnings, export_entity_state,
                                                                coordinator')
                                 ELSE earnings
                /\ earnings_state' =
                     IF /\ notified /\ earnings /= None
                        /\ ~(/\ coordinator.export_entity /= NoEntity
                             /\ export_entity_state /= NoText
                             /\ export_entity_state \notin {Unknown, Unavailable}
                             /\ ParseFloat(export_entity_state) = ValueError)
                       THEN async_write_ha_state(earnings', coordinator')
                       ELSE earnings_state
                /\ trace' = [trace EXCEPT !.before = earnings, !.export = export_entity_state,
                                          !.notified = notified,
                                          !.read = IF /\ notified /\ earnings /= None
                                                      /\ export_entity_state \in ReadableStates
                                                     THEN export_entity_state ELSE @]
  /\ refreshing' = None
  /\ UNCHANGED <<entry, registered, observed, export_entity_state>>
  /\ UNCHANGED <<orphaned, entry_state, hass>>

\* async_unload_entry up to the end of the unloading of the platform, as
\* for the removal or the reload of a loaded entry and at a restart of the
\* host, with what async_unload_platforms returns: when it is true the
\* sensors are removed, and nothing of them is stored, while the
\* coordinator is still in hass.data; when it is false nothing is removed
\* and the unload has failed.
async_unload_platforms(unload_ok) ==
  /\ entry_state = LOADED
  /\ IF unload_ok
       THEN /\ registered' = FALSE
            /\ earnings' = None
            /\ earnings_state' = None
            /\ trace' = [trace EXCEPT !.kept = earnings]
            /\ entry_state' = UNLOAD_IN_PROGRESS
       ELSE /\ entry_state' = FAILED_UNLOAD
            /\ UNCHANGED <<registered, earnings, earnings_state, trace>>
  /\ UNCHANGED <<entry, coordinator, refreshing, orphaned, fetched, outcome, good, observed,
                 cycles, export_entity_state, hass>>

\* The end of async_unload_entry after the platform is unloaded: the
\* coordinator is popped from hass.data, and nothing else is done. A
\* refresh of it that still waits is not cancelled: it goes on, with a
\* coordinator that nothing refers to any more, while the entry is not
\* loaded and can be set up again.
async_unload_entry ==
  /\ entry_state = UNLOAD_IN_PROGRESS
  /\ coordinator' = None
  /\ refreshing' = None
  /\ orphaned' = IF refreshing = None THEN orphaned ELSE Append(orphaned, refreshing)
  /\ entry_state' = NOT_LOADED
  /\ UNCHANGED <<entry, registered, fetched, outcome, good, observed, cycles,
                 earnings, earnings_state, export_entity_state, trace, hass>>

\* The refresh of a coordinator that was popped while it waited, when its
\* response has come: _async_update_data runs to its end, and whatever it
\* returns or raises goes to the popped coordinator alone. The sensors
\* that listened to it were removed before the pop, so no listener is
\* called and no further refresh of it is scheduled; nothing of the entry,
\* of the coordinator that a later set-up has stored for it or of its
\* sensors changes.
RefreshOrphaned(k) ==
  /\ k \in 1..Len(orphaned)
  /\ orphaned' = SubSeq(orphaned, 1, k - 1) \o SubSeq(orphaned, k + 1, Len(orphaned))
  /\ cycles' = cycles + 1
  /\ UNCHANGED <<entry, coordinator, registered, refreshing, entry_state, fetched, outcome,
                 good, observed, earnings, earnings_state, export_entity_state, trace,
                 hass>>

\* The export entity takes a state (outside of the integration).
export_state_changed(state) ==
  /\ export_entity_state /= state
  /\ export_entity_state' = state
  /\ UNCHANGED <<entry, coordinator, registered, fetched, outcome, good, observed,
                 cycles, earnings, earnings_state, trace>>
  /\ UNCHANGED <<refreshing, orphaned, entry_state, hass>>

\* The states of the sensors after `at` cycles, as a consumer reads them:
\* what each sensor wrote last. Every sensor is an ERCOTBaseSensor, a
\* CoordinatorEntity that does not override `available`: it is available
\* while the last refresh of its coordinator succeeded
\* (coordinator.last_update_success). A sensor writes its native_value
\* when it is available and "unavailable" when it is not, whatever its
\* native_value would be. The price, timestamp and derived sensors write
\* whenever the coordinator calls its listeners, which it does after every
\* refresh that changes its data or last_update_success, so that their
\* states are those of coordinator c, the derived ones as shown (Shown(c)).
\* The earnings sensor does not write when its update raises: its state is
\* `written`, what it wrote last.
SensorStates(at, c, shown, written) ==
  IF c.last_update_success
    THEN [at              |-> at,
          available       |-> TRUE,
          price           |-> price_native_value(c),
          timestamp       |-> timestamp_native_value(c),
          price_cents_kwh |-> shown.price_cents_kwh,
          sellback_rate   |-> shown.sellback_rate,
          sellback_cents  |-> shown.sellback_cents,
          earnings        |-> written]
    ELSE [at              |-> at,
          available       |-> FALSE,
          price           |-> STATE_UNAVAILABLE,
          timestamp       |-> Unavailable,
          price_cents_kwh |-> STATE_UNAVAILABLE,
          sellback_rate   |-> STATE_UNAVAILABLE,
          sellback_cents  |-> STATE_UNAVAILABLE,
          earnings        |-> written]

\* A variant of ReadSensors whose read of the earnings total starts the
\* sensor again.
ReadSensorsClearing ==
  /\ registered
  /\ observed' = SensorStates(cycles, coordinator, Shown(coordinator), earnings_state)
  /\ earnings' = IF earnings = None THEN None ELSE NewEarningsSensor
  /\ UNCHANGED <<entry, coordinator, registered, fetched, outcome, good, cycles,
                 earnings_state, export_entity_state, trace>>
  /\ UNCHANGED <<refreshing, orphaned, entry_state, hass>>

\* A consumer reads the state of the sensors.
ReadSensors ==
  /\ registered
  /\ observed' = SensorStates(cycles, coordinator, Shown(coordinator), earnings_state)
  /\ UNCHANGED <<entry, coordinator, registered, fetched, outcome, good, cycles,
                 earnings, earnings_state, export_entity_state, trace>>
  /\ UNCHANGED <<refreshing, orphaned, entry_state, hass>>

Next ==
  \/ \E user_input \in UserInputs : async_step_user(user_input)
  \/ async_setup_entry
  \/ \E response \in CycleResponses : async_config_entry_first_refresh(response)
  \/ sensor_async_setup_entry
  \/ async_refresh
  \/ \E response \in CycleResponses : Refresh(response)
  \/ ReadSensors

Spec == Init /\ [][Next]_vars

(***************************************************************************)
(* The update cycle alone, on every zone and every response: an entry of   *)
(* any zone, known or not, is set up once.                                 *)
(***************************************************************************)
PipelineEntries ==
  {EntryData([zone |-> z, buyback_provider |-> "Tesla Electric",
              custom_percent |-> Number(90)]) :
     z \in KnownZones \cup UnknownZones}

PipelineInit ==
  /\ entry \in PipelineEntries
  /\ coordinator = None
  /\ registered = FALSE
  /\ refreshing = None
  /\ orphaned = <<>>
  /\ entry_state = NOT_LOADED
  /\ fetched = None
  /\ outcome = NoException
  /\ good = None
  /\ observed = None
  /\ cycles = 0
  /\ earnings = None
  /\ earnings_state = None
  /\ export_entity_state = NoText
  /\ trace = NoTrace
  /\ hass = NoHass

PipelineNext ==
  \/ cycles = 0 /\ async_setup_entry
  \/ \E response \in PipelineResponses : async_config_entry_first_refresh(response)
  \/ sensor_async_setup_entry
  \/ ReadSensors

PipelineSpec == PipelineInit /\ [][PipelineNext]_vars

(***************************************************************************)
(* The earnings of an entry over its cycles, while the export entity       *)
(* changes its state and the entry is unloaded and set up again.           *)
(***************************************************************************)
EarningsInit ==
  /\ entry \in EarningsEntries
  /\ coordinator = None
  /\ registered = FALSE
  /\ refreshing = None
  /\ orphaned = <<>>
  /\ entry_state = NOT_LOADED
  /\ fetched = None
  /\ outcome = NoException
  /\ good = None
  /\ observed = None
  /\ cycles = 0
  /\ earnings = None
  /\ earnings_state = None
  /\ export_entity_state = NoText
  /\ trace = NoTrace
  /\ hass = NoHass

EarningsNext ==
  \/ async_setup_entry
  \/ \E response \in EarningsResponses : async_config_entry_first_refresh(response)
  \/ sensor_async_setup_entry
  \/ async_refresh
  \/ \E response \in EarningsResponses : Refresh(response)
  \/ \E state \in ExportStates : export_state_changed(state)
  \/ \E unload_ok \in BOOLEAN : async_unload_platforms(unload_ok)
  \/ async_unload_entry
  \/ \E k \in 1..Len(orphaned) : RefreshOrphaned(k)
  \/ ReadSensors

EarningsSpec == EarningsInit /\ [][EarningsNext]_vars

(***************************************************************************)
(* The earnings of an entry whose cycles read, besides the price 20, a     *)
(* price that is no finite number, while the export entity takes the       *)
(* readings of its counter.                                                *)
(***************************************************************************)
NonFinitePriceNext ==
  \/ async_setup_entry
  \/ \E response \in NonFiniteResponses : async_config_entry_first_refresh(response)
  \/ sensor_async_setup_entry
  \/ async_refresh
  \/ \E response \in NonFiniteResponses : Refresh(response)
  \/ \E state \in ExportReadings : export_state_changed(state)
  \/ ReadSensors

NonFinitePriceSpec == EarningsInit /\ [][NonFinitePriceNext]_vars

(***************************************************************************)
(* The derived metrics alone, at every custom percentage: an entry is set  *)
(* up once and its sensors are read.                                       *)
(***************************************************************************)
MetricsInit ==
  /\ entry \in MetricsEntries
  /\ coordinator = None
  /\ registered = FALSE
  /\ refreshing = None
  /\ orphaned = <<>>
  /\ entry_state = NOT_LOADED
  /\ fetched = None
  /\ outcome = NoException
  /\ good = None
  /\ observed = None
  /\ cycles = 0
  /\ earnings = None
  /\ earnings_state = None
  /\ export_entity_state = NoText
  /\ trace = NoTrace
  /\ hass = NoHass

MetricsNext ==
  \/ async_setup_entry
  \/ \E response \in MetricsResponses : async_config_entry_first_refresh(response)
  \/ sensor_async_setup_entry
  \/ ReadSensors

MetricsSpec == MetricsInit /\ [][MetricsNext]_vars

(***************************************************************************)
(* What a document holds, read from its description and not from its text: *)
(* the cell elements that have a text of their own, the spans after its    *)
(* captions.                                                               *)
(***************************************************************************)
\* A cell element with a text and nothing but text in it.
TextOnly(cell) ==
  /\ cell.text /= <<>>
  /\ \A k \in 1..Len(cell.text) : cell.text[k] /= "<"

\* The text-only cell elements of document d, in document order.
FoundCells(d) == SelectSeq([i \in 1..d.n |-> DocCells(d)[i]], TextOnly)

\* The last RowWidth of them (d has that many).
FinalCells(d) ==
  SubSeq(FoundCells(d), Len(FoundCells(d)) - RowWidth + 1, Len(FoundCells(d)))

\* The column of a zone: the zone table's, LZ_NORTH's for any other zone.
ColumnOfZone(zone) ==
  IF zone \in KnownZones THEN zone_map[zone] ELSE zone_map[DEFAULT_ZONE]

\* The cell of the final cells that belongs to the zone.
ZoneCell(zone, d) == FinalCells(d)[ColumnOfZone(zone) + 1]

NotEmpty(span) == span /= <<>>

\* The spans after the captions of d that hold at least one character.
FilledSpans(d) == SelectSeq(Captions[d.caption].spans, NotEmpty)

\* The timestamp of d: the first of its filled spans.
StampOf(d) == IF FilledSpans(d) = <<>> THEN NoText ELSE FilledSpans(d)[1]

\* The reading of the zone that d holds (d has RowWidth cells or more, and
\* a number in the cell of the zone).
ReadingOf(zone, d) ==
  [price_mwh |-> ZoneCell(zone, d).value,
   timestamp |-> StampOf(d),
   date      |-> FinalCells(d)[1].text,
   time      |-> FinalCells(d)[2].text]

\* What the derived sensors show for that reading at a percentage.
DerivedOf(zone, d, percent) ==
  DerivedTable[[data             |-> [price_mwh |-> ZoneCell(zone, d).value],
                sellback_percent |-> percent]]

\* The last cycle fetched a document in which n cells are found.
FetchedCells == IF fetched.kind = "response" THEN Len(FoundCells(fetched.doc)) ELSE -1

(***************************************************************************)
(* C1. For every fetched document in which fewer than 17 table cells are   *)
(* found, the update cycle fails with an error and returns no reading at   *)
(* all: the cycle raises its "not enough cells" exception, and no          *)
(* coordinator data, not even a partial one, exists after it.              *)
(***************************************************************************)
C1_ShortDocumentFails ==
  (fetched.kind = "response" /\ FetchedCells < RowWidth)
    => /\ outcome = "Exception"
       /\ coordinator = None
       /\ ~registered
       /\ good = None

\* A document one cell short was fetched and the cycle raised.
C1_Witness ==
  /\ FetchedCells = RowWidth - 1
  /\ outcome = "Exception"
  /\ coordinator = None

(***************************************************************************)
(* C2. For every document with at least 17 cells and every one of the 15   *)
(* known zones, the price of the returned reading is the numeric value of  *)
(* the cell at that zone's table offset (in 2..16) within the final 17     *)
(* cells of the document, whatever the number of earlier cells; and the    *)
(* reading is returned whenever that cell is a number.                     *)
(***************************************************************************)
C2_PriceIsZoneCellOfFinalRow ==
  (FetchedCells >= RowWidth /\ entry.zone \in KnownZones)
    => LET cell == FinalCells(fetched.doc)[zone_map[entry.zone] + 1]
       IN  /\ zone_map[entry.zone] \in 2..(RowWidth - 1)
           /\ cell.value /= ValueError => coordinator /= None
           /\ coordinator /= None => coordinator.data.price_mwh = cell.value

\* A table with a cell after its two rows: the price of the first zone is
\* the third of the final 17 cells.
C2_Witness ==
  /\ FetchedCells = 2 * RowWidth + 1
  /\ entry.zone = "HB_BUSAVG"
  /\ registered
  /\ coordinator.data.price_mwh = FoundCells(fetched.doc)[FetchedCells - RowWidth + 3].value

(***************************************************************************)
(* C3. Whenever the cell selected for the configured zone is not parseable *)
(* as a floating-point number (for example "N/A"), the cycle fails with an *)
(* error (the ValueError of the conversion) and returns no reading.        *)
(***************************************************************************)
C3_UnparseablePriceFails ==
  (FetchedCells >= RowWidth /\ ZoneCell(entry.zone, fetched.doc).value = ValueError)
    => /\ outcome = "ValueError"
       /\ coordinator = None
       /\ ~registered
       /\ good = None

\* The cell of the zone reads "N/A" and the cycle raised ValueError.
C3_Witness ==
  /\ FetchedCells >= RowWidth
  /\ ZoneCell(entry.zone, fetched.doc).text = <<"N", "/", "A">>
  /\ entry.zone = "HB_HUBAVG"
  /\ outcome = "ValueError"

(***************************************************************************)
(* C4. Every reading returned by a successful cycle is complete and        *)
(* internally consistent: date is cell 0, time is cell 1 and price is the  *)
(* zone's cell of the same final 17-cell row; the reading has its four     *)
(* fields, none but timestamp is absent, and the price the sensor shows is *)
(* the price of the reading, never a default.                              *)
(***************************************************************************)
C4_ReadingCompleteAndConsistent ==
  coordinator /= None
    => LET data == coordinator.data
           row  == FinalCells(good.doc)
       IN  /\ DOMAIN data = {"price_mwh", "timestamp", "date", "time"}
           /\ data.date = row[1].text
           /\ data.time = row[2].text
           /\ data.price_mwh = row[ColumnOfZone(entry.zone) + 1].value
           /\ data.price_mwh /= ValueError
           /\ data.date /= <<>>
           /\ data.time /= <<>>
           /\ price_native_value(coordinator) = data.price_mwh
           /\ observed /= None
                => /\ observed.price = row[ColumnOfZone(entry.zone) + 1].value
                   /\ observed.price_cents_kwh
                        = DerivedOf(entry.zone, good.doc, entry.sellback_percent).price_cents_kwh
                   /\ observed.sellback_rate
                        = DerivedOf(entry.zone, good.doc, entry.sellback_percent).sellback_rate
                   /\ observed.sellback_cents
                        = DerivedOf(entry.zone, good.doc, entry.sellback_percent).sellback_cents

\* A reading without a timestamp whose other fields are those of the last
\* of two rows, read by a consumer.
C4_Witness ==
  /\ registered
  /\ FetchedCells = 2 * RowWidth
  /\ coordinator.data.timestamp = NoText
  /\ coordinator.data.date = FinalCells(fetched.doc)[1].text
  /\ coordinator.data.date /= FoundCells(fetched.doc)[1].text
  /\ observed /= None

(***************************************************************************)
(* C5, as stated. The timestamp of a reading is the text that follows the  *)
(* first caption "Last Updated: " up to (not including) the next "<" or    *)
(* line break; when the document has no such caption the cycle still       *)
(* succeeds and the reading's timestamp is absent.                         *)
(***************************************************************************)
C5_TimestampOfFirstCaption ==
  coordinator /= None
    => LET spans == Captions[good.doc.caption].spans
       IN  coordinator.data.timestamp = (IF spans = <<>> THEN NoText ELSE spans[1])

(***************************************************************************)
(* C5, amended. The timestamp of a reading is the text that follows the    *)
(* first caption "Last Updated: " that has at least one character other    *)
(* than "<" and line feed right after it, up to (not including) the next   *)
(* "<" or line feed or the end of the document; when no caption of the     *)
(* document has such a character after it, the cycle still succeeds and    *)
(* the reading's timestamp is absent. The timestamp sensor shows it.       *)
(***************************************************************************)
C5_TimestampOfFirstFilledCaption ==
  /\ coordinator /= None
       => LET spans == FilledSpans(good.doc)
              stamp == IF spans = <<>> THEN NoText ELSE spans[1]
          IN  /\ coordinator.data.timestamp = stamp
              /\ timestamp_native_value(coordinator) = stamp
              /\ observed /= None => observed.timestamp = stamp
  /\ (/\ FetchedCells >= RowWidth
      /\ ZoneCell(entry.zone, fetched.doc).value /= ValueError)
       => coordinator /= None

\* A document whose first caption has nothing after it and whose second
\* has a text: the timestamp is the text of the second.
C5_Witness ==
  /\ registered
  /\ Len(Captions[good.doc.caption].spans) = 2
  /\ Captions[good.doc.caption].spans[1] = <<>>
  /\ coordinator.data.timestamp = Captions[good.doc.caption].spans[2]

(***************************************************************************)
(* C6. Every table-cell element of the document contributes exactly one    *)
(* entry, its inner text, to the extracted cell sequence, in document      *)
(* order and regardless of the letter case of the tag; hence for a table   *)
(* whose rows all have 17 columns the last 17 entries are exactly the 17   *)
(* cells of the last row.                                                  *)
(***************************************************************************)
C6_EveryCellElementExtracted ==
  fetched.kind = "response"
    => LET d     == fetched.doc
           found == Extracted[d].cells
       IN  /\ Len(found) = d.n
           /\ \A i \in 1..d.n : found[i] = DocCells(d)[i].text
           /\ (d.n >= RowWidth /\ d.n % RowWidth = 0)
                => /\ Len(last_row(found)) = RowWidth
                   /\ \A k \in 1..RowWidth :
                        last_row(found)[k] = DocCells(d)[d.n - RowWidth + k].text

(***************************************************************************)
(* C7. A zone identifier that is not one of the 15 known identifiers       *)
(* (lookup is exact-match) resolves to the offset of the default zone      *)
(* LZ_NORTH (13) instead of failing, so the cycle returns the LZ_NORTH     *)
(* cell as the price: the cycle of such a zone ends as that of LZ_NORTH    *)
(* does on the same response.                                              *)
(***************************************************************************)
C7_UnknownZoneReadsDefaultColumn ==
  entry.zone \notin KnownZones
    => /\ col_idx(entry.zone) = zone_map[DEFAULT_ZONE]
       /\ col_idx(entry.zone) = 13
       /\ fetched /= None
            => /\ outcome = async_update_data(DEFAULT_ZONE, fetched).raised
               /\ outcome \in {NoException, "ClientError", "Exception", "ValueError"}
       /\ FetchedCells >= RowWidth
            => LET cell == FinalCells(fetched.doc)[13 + 1]
               IN  /\ cell.value /= ValueError => coordinator /= None
                   /\ coordinator /= None => coordinator.data.price_mwh = cell.value

\* A known zone in lower case is an unknown zone: "lz_west" reads the cell
\* of LZ_NORTH, which differs from the cell of LZ_WEST.
C7_Witness ==
  /\ entry.zone = "lz_west"
  /\ registered
  /\ FetchedCells = 2 * RowWidth
  /\ coordinator.data.price_mwh = FinalCells(fetched.doc)[zone_map["LZ_NORTH"] + 1].value
  /\ coordinator.data.price_mwh /= FinalCells(fetched.doc)[zone_map["LZ_WEST"] + 1].value

(***************************************************************************)
(* C8. The zone table maps exactly the 15 identifiers of the ZONES list,   *)
(* which are also exactly the 15 values offered by the setup dropdown,     *)
(* one-to-one onto the offsets 2..16 (0 and 1 are never a price offset),   *)
(* so the default-zone fallback is never taken for a zone chosen through   *)
(* setup: the zone of every entry and of every coordinator is a key of     *)
(* the table.                                                              *)
(***************************************************************************)
C8_ZoneTableCoversSetupZones ==
  /\ Len(ZONES) = 15
  /\ Len(ZoneOptions) = 15
  /\ DOMAIN zone_map = {ZONES[i] : i \in 1..Len(ZONES)}
  /\ DOMAIN zone_map = {ZoneOptions[i] : i \in 1..Len(ZoneOptions)}
  /\ Cardinality(DOMAIN zone_map) = 15
  /\ {zone_map[z] : z \in DOMAIN zone_map} = 2..16
  /\ \A y, z \in DOMAIN zone_map : zone_map[y] = zone_map[z] => y = z
  /\ entry /= None => entry.zone \in DOMAIN zone_map
  /\ coordinator /= None
       => /\ coordinator.zone = entry.zone
          /\ col_idx(coordinator.zone) = zone_map[coordinator.zone]

\* The last zone of the dropdown's load zones was chosen and set up, and a
\* cycle read its own column.
C8_Witness ==
  /\ entry /= None
  /\ entry.zone = "LZ_RAYBN"
  /\ registered
  /\ col_idx(coordinator.zone) = 14
  /\ coordinator.data.price_mwh = FinalCells(good.doc)[14 + 1].value

(***************************************************************************)
(* C9. Each cycle performs exactly one GET with no retry of its own, and   *)
(* any network or HTTP failure of that fetch (including an HTTP error      *)
(* response) makes the cycle fail with a TransportError that propagates to *)
(* the scheduler: the body of a failed response is never parsed into a     *)
(* reading.                                                                *)
(***************************************************************************)
C9_FailedFetchNeverParsed ==
  (fetched.kind = "error" \/ (fetched.kind = "response" /\ fetched.status >= 400))
    => /\ outcome = "ClientError"
       /\ good /= fetched

\* What a consumer reads after `at` cycles while the sensors show the
\* reading of document d for an entry of `zone` at `percent`: the values
\* of that reading, each sensor available, beside the earnings read.
VisibleReading(at, zone, d, percent, read_earnings) ==
  [at              |-> at,
   available       |-> TRUE,
   price           |-> ReadingOf(zone, d).price_mwh,
   timestamp       |-> ReadingOf(zone, d).timestamp,
   price_cents_kwh |-> DerivedOf(zone, d, percent).price_cents_kwh,
   sellback_rate   |-> DerivedOf(zone, d, percent).sellback_rate,
   sellback_cents  |-> DerivedOf(zone, d, percent).sellback_cents,
   earnings        |-> read_earnings]

\* What a consumer reads after `at` cycles while no sensor is available.
NothingVisible(at, read_earnings) ==
  [at              |-> at,
   available       |-> FALSE,
   price           |-> STATE_UNAVAILABLE,
   timestamp       |-> Unavailable,
   price_cents_kwh |-> STATE_UNAVAILABLE,
   sellback_rate   |-> STATE_UNAVAILABLE,
   sellback_cents  |-> STATE_UNAVAILABLE,
   earnings        |-> read_earnings]

\* The coordinator holds the reading of the last cycle that succeeded:
\* good is the response of that cycle, a cycle that succeeds replaces the
\* reading wholesale and a cycle that fails leaves it.
LastGoodReadingKept ==
  /\ (fetched /= None /\ outcome = NoException) => good = fetched
  /\ (fetched /= None /\ outcome /= NoException) => good /= fetched
  /\ registered
       => /\ good /= None
          /\ coordinator.data = ReadingOf(entry.zone, good.doc)
          /\ coordinator.last_update_success = (outcome = NoException)

(***************************************************************************)
(* C10, as amended. After any sequence of successful and failed cycles the *)
(* coordinator holds the most recent successful reading, and every value   *)
(* (price, timestamp and the three derived metrics) that a consumer reads  *)
(* is computed from it: a successful cycle replaces the reading wholesale  *)
(* and is reflected by the very next read. A failed cycle leaves the       *)
(* previous reading in the coordinator, but not visible: from a failed     *)
(* cycle until a cycle succeeds again each of these five sensors is        *)
(* unavailable, and a consumer reads "unavailable" in place of each value, *)
(* never a value of another reading. A read is current when no cycle has   *)
(* run since.                                                              *)
(***************************************************************************)
C10_ConsumersSeeLastGoodReading ==
  /\ LastGoodReadingKept
  /\ (observed /= None /\ observed.at = cycles)
       => IF outcome = NoException
            THEN observed = VisibleReading(cycles, entry.zone, good.doc,
                                           entry.sellback_percent, observed.earnings)
            ELSE observed = NothingVisible(cycles, observed.earnings)

(***************************************************************************)
(* C10, as claimed: a failed cycle leaves the previous reading visible     *)
(* until a cycle succeeds again, so that what a consumer reads is at any   *)
(* time the values of the most recent successful reading.                  *)
(***************************************************************************)
C10_FailedCycleLeavesReadingVisible ==
  /\ LastGoodReadingKept
  /\ (observed /= None /\ observed.at = cycles)
       => observed = VisibleReading(cycles, entry.zone, good.doc,
                                    entry.sellback_percent, observed.earnings)

\* Three cycles, the last of which failed after one that read the table
\* without a caption: the coordinator still holds the reading of that
\* table, with the price of the LZ_NORTH cell, 13.25 $/MWh, and a consumer
\* reads "unavailable" from every sensor.
C10_Witness ==
  /\ cycles = 3
  /\ outcome = "ClientError"
  /\ entry.zone = "LZ_NORTH"
  /\ good = Response(200, Doc(2 * RowWidth, 2, 2, 0, 0))
  /\ coordinator.data.price_mwh = Finite(FALSE, 1325, -2)
  /\ coordinator.data.timestamp = NoText
  /\ observed /= None
  /\ observed.at = cycles
  /\ ~observed.available
  /\ observed.price = STATE_UNAVAILABLE
  /\ observed.timestamp = Unavailable
  /\ observed.price_cents_kwh = STATE_UNAVAILABLE

(***************************************************************************)
(* The earnings sensor through a cycle: the sensor exists and existed      *)
(* before the last cycle, which therefore was a refresh, not a set-up.     *)
(***************************************************************************)
EarningsCycle == earnings /= None /\ trace.before /= None

\* The export entity had a reading during the last cycle: a state, neither
\* "unknown" nor "unavailable", that float() takes.
ExportRead ==
  /\ trace.export \notin {NoText, Unknown, Unavailable}
  /\ ParseFloat(trace.export) /= ValueError

(***************************************************************************)
(* C11. A cycle that failed (the request raised, the document was short or *)
(* the price was not a number) leaves the state of the earnings sensor     *)
(* untouched: its last export reading and its total are after the cycle    *)
(* what they were before it.                                               *)
(***************************************************************************)
C11_FailedCycleLeavesEarnings ==
  (EarningsCycle /\ outcome /= NoException) => earnings = trace.before

(***************************************************************************)
(* What an update has to add, in whole numbers and without any rounding.   *)
(* A signed whole number of any size is [neg, mag]; the readings of the    *)
(* export counter are whole numbers of kWh.                                *)
(***************************************************************************)
Signed(neg, mag) == [neg |-> neg /\ mag /= <<>>, mag |-> mag]

SignedSum(x, y) ==
  IF x.neg = y.neg THEN Signed(x.neg, Add(x.mag, y.mag))
  ELSE IF Below(x.mag, y.mag) THEN Signed(y.neg, Sub(y.mag, x.mag))
  ELSE Signed(x.neg, Sub(x.mag, y.mag))

SignedOf(n) == Signed(n < 0, Limbs(IF n < 0 THEN 0 - n ELSE n))

\* The whole number x * 2^s of a finite double x (s is large enough).
Scaled(x, s) == Signed(x.neg, ShiftLeft(x.significand, x.exponent + s))

\* The whole number that the finite double x is.
Whole(x) ==
  LET n == IF x.exponent >= 0 THEN ToInt(ShiftLeft(x.significand, x.exponent))
           ELSE ToInt(ShiftRight(x.significand, 0 - x.exponent).q)
  IN  IF x.neg THEN 0 - n ELSE n

\* The total after is the total before plus
\*   delta * (price / 1000) * (percent / 100)
\* to within 2^-40 (a double holds a total below 4096 to within 2^-41), for
\* a whole delta, a price of at most three decimals and a whole percentage:
\* both sides are taken times 2^s * 10^(5 + k), which makes them whole.
AddsExactly(before, after, delta, price, percentage) ==
  LET s      == Max({40, 0 - before.exponent, 0 - after.exponent})
      k      == IF price.exp < 0 THEN 0 - price.exp ELSE 0
      tens   == Limbs(10^(5 + k))
      gained == SignedSum(Scaled(after, s), Signed(~before.neg, Scaled(before, s).mag))
      credit == delta * price.mant * WholeValue(percentage) * 10^(price.exp + k)
                  * (IF price.neg THEN -1 ELSE 1)
      due    == Signed(credit < 0, ShiftLeft(SignedOf(credit).mag, s))
      off    == SignedSum(Signed(gained.neg, Mul(gained.mag, tens)),
                          Signed(~due.neg, due.mag))
  IN  /\ before.kind = "finite" /\ after.kind = "finite"
      /\ price.kind = "finite" /\ IsWhole(percentage)
      /\ ~Below(ShiftLeft(tens, s - 40), off.mag)

\* For every update of the table: the reading, whether it is below the
\* last one, and whether the update added the amount due for the
\* difference of the two readings (grown) and for the reading itself
\* (whole).
Accrual ==
  [key \in {k \in DOMAIN CreditTable : ParseFloat(k.state) /= ValueError} |->
     LET parsed  == ParseFloat(key.state)
         reading == parsed.mant * 10^parsed.exp
         last    == Whole(key.sensor.last_export)
         after   == CreditTable[key]
     IN  [reading |-> reading,
          below   |-> reading < last,
          kept    |-> Whole(after.last_export) = reading,
          grown   |-> AddsExactly(key.sensor.total, after.total, reading - last,
                                  key.price_mwh, key.percent),
          whole   |-> AddsExactly(key.sensor.total, after.total, reading,
                                  key.price_mwh, key.percent)]]

\* The update that the last cycle has to have made: of the sensor as it
\* was, with the export state as it was, at the price of the reading that
\* the cycle returned and at the percentage of the entry.
CycleKey ==
  [sensor    |-> trace.before,
   state     |-> trace.export,
   price_mwh |-> ReadingOf(entry.zone, fetched.doc).price_mwh,
   percent   |-> entry.sellback_percent]

(***************************************************************************)
(* C12. On a cycle that returned a reading while the export entity has a   *)
(* reading current_export not below the last one, the sensor adds          *)
(*   (current_export - last_export) * (price / 1000) * (percent / 100)     *)
(* to its total, at the price of the reading of this cycle, and then takes *)
(* current_export for its last reading: from 100 to 150 kWh at 20 $/MWh    *)
(* and 90 percent the total grows by 0.9. "Adds" is to within the rounding *)
(* of the doubles, 2^-40.                                                  *)
(***************************************************************************)
C12_CreditsDeltaAtCurrentPrice ==
  (EarningsCycle /\ outcome = NoException /\ ExportRead /\ ~Accrual[CycleKey].below)
    => /\ earnings = CreditTable[CycleKey]
       /\ Accrual[CycleKey].kept
       /\ Accrual[CycleKey].grown

\* The example of the claim: the entry was set up, the export counter read
\* 100 at the second cycle and 150 at the third, whose table has the price
\* 20; the total went from 1.8 to 2.7.
C12_Witness ==
  /\ EarningsCycle
  /\ outcome = NoException
  /\ cycles = 3
  /\ trace.export = <<"1", "5", "0">>
  /\ Whole(trace.before.last_export) = 100
  /\ fetched = Response(200, Doc(RowWidth, 1, 1, 9, RowWidth - zone_map[DEFAULT_ZONE]))
  /\ earnings_native_value(trace.before) = Finite(FALSE, 18, -1)
  /\ earnings_native_value(earnings) = Finite(FALSE, 27, -1)
  /\ Whole(earnings.last_export) = 150

\* The update that the last cycle made if the sensor was called: at the
\* price that the coordinator holds after the cycle.
UpdateKey ==
  [sensor    |-> trace.before,
   state     |-> trace.export,
   price_mwh |-> coordinator.data.price_mwh,
   percent   |-> coordinator.sellback_percent]

(***************************************************************************)
(* C13. When the reading of the export entity is below the last reading of *)
(* the sensor, the update takes it for a reset of the counter: it credits  *)
(* the whole current reading (from 500 to 10 it credits 10 kWh, not -490), *)
(* and the last reading becomes the current one.                           *)
(***************************************************************************)
C13_ResetCreditsWholeReading ==
  (EarningsCycle /\ trace.notified /\ ExportRead /\ Accrual[UpdateKey].below)
    => /\ earnings = CreditTable[UpdateKey]
       /\ Accrual[UpdateKey].kept
       /\ Accrual[UpdateKey].whole
       /\ ~Accrual[UpdateKey].grown

\* The example of the claim: the counter read 500 at the second cycle and
\* 10 at the third, at 20 $/MWh and 90 percent; the total went from 9.0 to
\* 9.18, by the 0.18 of 10 kWh.
C13_Witness ==
  /\ EarningsCycle
  /\ trace.notified
  /\ cycles = 3
  /\ trace.export = <<"1", "0">>
  /\ Whole(trace.before.last_export) = 500
  /\ coordinator.data.price_mwh = Finite(FALSE, 2, 1)
  /\ earnings_native_value(trace.before) = Finite(FALSE, 9, 0)
  /\ earnings_native_value(earnings) = Finite(FALSE, 918, -2)
  /\ Whole(earnings.last_export) = 10

(***************************************************************************)
(* C14. When the export entity has no state, or the state "unknown" or     *)
(* "unavailable", the update is skipped entirely: the total and the last   *)
(* reading are after the cycle what they were before it. The next reading  *)
(* is therefore credited against the last reading that was read: the last  *)
(* reading of the sensor is at any time the last state of the export       *)
(* entity that an update read (0 for a sensor that has read none), however *)
(* many cycles were skipped since.                                         *)
(***************************************************************************)
C14_UnavailableExportSkipsUpdate ==
  /\ (EarningsCycle /\ trace.export \in {NoText, Unknown, Unavailable})
       => earnings = trace.before
  /\ earnings /= None
       => Whole(earnings.last_export)
            = (IF trace.read = NoText THEN 0
               ELSE ParseFloat(trace.read).mant * 10^ParseFloat(trace.read).exp)

\* The counter read 100 at the second cycle and the export entity was
\* unavailable at the third, which returned a reading: the sensor is as it
\* was, with its total of 1.8 and its last reading of 100.
C14_Witness ==
  /\ EarningsCycle
  /\ cycles = 3
  /\ outcome = NoException
  /\ trace.notified
  /\ trace.export = Unavailable
  /\ trace.read = <<"1", "0", "0">>
  /\ earnings = trace.before
  /\ Whole(earnings.last_export) = 100
  /\ earnings_native_value(earnings) = Finite(FALSE, 18, -1)

(***************************************************************************)
(* C15. The total of the earnings sensor never decreases: whatever the     *)
(* readings of the export counter (growing, reset, missing) and whatever   *)
(* the price of the reading, the total after a cycle is not below the      *)
(* total before it.                                                        *)
(***************************************************************************)
C15_TotalNeverDecreases ==
  EarningsCycle => AtMost(trace.before.total, earnings.total)

(***************************************************************************)
(* C16. The total of the earnings sensor is preserved across restarts:     *)
(* when the entry is set up again after an unload (a restart of the host,  *)
(* a reload of the entry) and the earnings sensor is made again, its total *)
(* and its last export reading are those of the sensor that the unload     *)
(* dropped.                                                                *)
(***************************************************************************)
C16_TotalSurvivesRestart ==
  (earnings /= None /\ trace.before = None /\ trace.kept /= None)
    => earnings = trace.kept

(***************************************************************************)
(* C17. An entry without an export entity has no earnings sensor at any    *)
(* time: nothing accumulates and a consumer reads no earnings value. An    *)
(* entry with an export entity has the sensor as soon as it is set up, and *)
(* each cycle then does one of two things to it: the update, when the      *)
(* coordinator calls the sensor and the export entity has a reading, or    *)
(* nothing.                                                                *)
(***************************************************************************)
C17_IdleWithoutExportEntity ==
  /\ "export_entity" \notin DOMAIN entry
       => /\ earnings = None
          /\ observed /= None => observed.earnings = None
  /\ ("export_entity" \in DOMAIN entry /\ registered) => earnings /= None
  /\ EarningsCycle
       => IF trace.notified /\ trace.export \in ReadableStates
            THEN earnings = CreditTable[UpdateKey]
            ELSE earnings = trace.before

\* An entry without an export entity after three cycles, while the grid
\* export sensor of the house reads 100: there is no earnings sensor, and
\* a consumer has read the other sensors and no earnings.
C17_Witness ==
  /\ "export_entity" \notin DOMAIN entry
  /\ registered
  /\ cycles = 3
  /\ outcome = NoException
  /\ export_entity_state = <<"1", "0", "0">>
  /\ earnings = None
  /\ observed /= None
  /\ observed.at = cycles
  /\ observed.earnings = None
  /\ observed.price = Finite(FALSE, 2, 1)

(***************************************************************************)
(* What a derived metric has to be, in whole numbers: the decimal shown    *)
(* has at most ndigits digits after the point and lies within half a unit  *)
(* of the last of them of m * 10^e. That is m * 10^e rounded to ndigits    *)
(* digits; where m * 10^e lies exactly halfway between two such decimals,  *)
(* it is one of the two.                                                   *)
(***************************************************************************)
IsRounded(shown, m, e, ndigits) ==
  LET u     == Min({e, 0 - ndigits - 1})
      value == m * 10^(e - u)
      s     == (IF shown.neg THEN -1 ELSE 1) * shown.mant * 10^(shown.exp - u)
      off   == IF s >= value THEN s - value ELSE value - s
  IN  /\ shown.kind = "finite"
      /\ shown.exp >= 0 - ndigits
      /\ off <= 5 * 10^(0 - ndigits - 1 - u)

\* The price that a consumer read, as a whole number times a power of ten.
ObservedMant == (IF observed.price.neg THEN -1 ELSE 1) * observed.price.mant

ObservedExp == observed.price.exp

(***************************************************************************)
(* C18. For every price, negative ones included, the cents per kWh that    *)
(* the sensor shows are price / 1000 * 100 rounded to two decimals: 1.47   *)
(* for 14.72 $/MWh.                                                        *)
(***************************************************************************)
C18_CentsPerKwhRounded ==
  (observed /= None /\ observed.price.kind = "finite")
    => IsRounded(observed.price_cents_kwh, ObservedMant, ObservedExp - 1, 2)

\* The example of the claim: a consumer reads 1.47 cents at 14.72 $/MWh.
C18_Witness ==
  /\ observed /= None
  /\ observed.price = Finite(FALSE, 1472, -2)
  /\ observed.price_cents_kwh = Finite(FALSE, 147, -2)

(***************************************************************************)
(* C19. For every price and every sellback percentage from 1 to 100, the   *)
(* sellback rate per kWh that the sensor shows is                          *)
(* price / 1000 * (percent / 100) rounded to five decimals: 0.01325 for    *)
(* 14.72 $/MWh at 90 percent.                                              *)
(***************************************************************************)
C19_SellbackRateRounded ==
  (observed /= None /\ observed.price.kind = "finite")
    => /\ IsWhole(coordinator.sellback_percent)
       /\ WholeValue(coordinator.sellback_percent) \in MinPercent..MaxPercent
       /\ IsRounded(observed.sellback_rate,
                    ObservedMant * WholeValue(coordinator.sellback_percent),
                    ObservedExp - 5, 5)

\* The example of the claim: a consumer reads the rate 0.01325 at
\* 14.72 $/MWh and 90 percent.
C19_Witness ==
  /\ observed /= None
  /\ coordinator.sellback_percent = Number(90)
  /\ observed.price = Finite(FALSE, 1472, -2)
  /\ observed.sellback_rate = Finite(FALSE, 1325, -5)

(***************************************************************************)
(* C20. The sellback cents per kWh that the sensor shows are               *)
(* price / 1000 * (percent / 100) * 100 rounded to two decimals, computed  *)
(* from the price and the percentage themselves and not from the sellback  *)
(* rate as rounded to five decimals: at 14.72 $/MWh and 18 percent the     *)
(* cents are 0.26 (of 0.26496), while the rate shown, 0.00265, would give  *)
(* 0.265 and from there 0.27.                                              *)
(***************************************************************************)
C20_SellbackCentsFromUnroundedRate ==
  (observed /= None /\ observed.price.kind = "finite")
    => IsRounded(observed.sellback_cents,
                 ObservedMant * WholeValue(coordinator.sellback_percent), ObservedExp - 3, 2)

\* A consumer reads, at 14.72 $/MWh and 18 percent, the rate 0.00265 and
\* the cents 0.26.
C20_Witness ==
  /\ observed /= None
  /\ coordinator.sellback_percent = Number(18)
  /\ observed.price = Finite(FALSE, 1472, -2)
  /\ observed.sellback_rate = Finite(FALSE, 265, -5)
  /\ observed.sellback_cents = Finite(FALSE, 26, -2)

(***************************************************************************)
(* C21. Reading the sensors is pure. A read changes nothing but what the   *)
(* consumer holds, and what it returns is a function of the coordinator    *)
(* and of the state that the earnings sensor wrote last alone: a reading   *)
(* taken since the last cycle is what a read returns now. An earnings      *)
(* sensor changes only in a cycle in which the coordinator called its      *)
(* listeners, and so does the state that it has written.                   *)
(***************************************************************************)
C21_ReadingIsPure ==
  /\ [](registered /\ observed /= None /\ observed.at = cycles
          => observed = SensorStates(cycles, coordinator, Shown(coordinator),
                                     earnings_state))
  /\ [][/\ observed' /= observed
             => /\ UNCHANGED <<entry, coordinator, registered, refreshing, orphaned,
                               entry_state, fetched, outcome, good, cycles, earnings,
                               earnings_state, export_entity_state>>
                /\ observed' = SensorStates(cycles, coordinator, Shown(coordinator),
                                            earnings_state)
        /\ (/\ earnings /= None /\ earnings' /= None
            /\ earnings' /= earnings \/ earnings_state' /= earnings_state)
             => cycles' = cycles + 1 /\ trace'.notified]_vars

\* The sensors were read after a cycle that credited an export: the total
\* read is that of the sensor, which still holds it.
C21_Witness ==
  /\ registered
  /\ observed /= None
  /\ observed.at = cycles
  /\ earnings /= None
  /\ earnings /= NewEarningsSensor
  /\ observed.earnings = earnings_native_value(earnings)
  /\ observed.earnings = Finite(FALSE, 18, -2)

(***************************************************************************)
(* C25. An earnings sensor starts with a last reading of 0 and a total of  *)
(* 0, and its first update therefore credits the whole reading E of the    *)
(* export counter, E * (price / 1000) * (percent / 100), not the export    *)
(* since the sensor was made; E becomes the last reading.                  *)
(***************************************************************************)
C25_FirstUpdateCreditsWholeReading ==
  /\ (earnings /= None /\ trace.before = None)
       => IsZero(earnings.last_export) /\ IsZero(earnings.total)
  /\ (/\ EarningsCycle /\ trace.notified /\ ExportRead
      /\ IsZero(trace.before.last_export) /\ IsZero(trace.before.total))
       => /\ earnings = CreditTable[UpdateKey]
          /\ Accrual[UpdateKey].kept
          /\ Accrual[UpdateKey].whole

\* The sensor was made at the set-up and the counter read 100 at the
\* cycle after it, at 20 $/MWh and 90 percent: the total is 1.8.
C25_Witness ==
  /\ EarningsCycle
  /\ trace.notified
  /\ cycles = 2
  /\ trace.before = NewEarningsSensor
  /\ trace.export = <<"1", "0", "0">>
  /\ coordinator.data.price_mwh = Finite(FALSE, 2, 1)
  /\ Whole(earnings.last_export) = 100
  /\ earnings_native_value(earnings) = Finite(FALSE, 18, -1)

(***************************************************************************)
(* C26: the coordinator is stored and the sensors are made only after the  *)
(* first refresh succeeded. In every state in which the coordinator is in  *)
(* hass.data, and so in every state in which the sensors can be read or    *)
(* the earnings sensor can be updated (registered), a fetch has succeeded  *)
(* and the coordinator holds a whole reading: a price that is a number,    *)
(* the timestamp, the date and the time; its data is never empty, also     *)
(* after cycles that failed. While the first refresh of a set-up waits for *)
(* its response there is no coordinator in hass.data and no sensor. Before *)
(* the first fetch that succeeded there is no coordinator, no earnings     *)
(* sensor, and nothing was read.                                           *)
(***************************************************************************)
C26_RegisteredCoordinatorHoldsReading ==
  /\ coordinator /= None
       => /\ good /= None
          /\ entry_state \notin {NOT_LOADED, SETUP_RETRY}
          /\ coordinator.data /= None
          /\ DOMAIN coordinator.data = {"price_mwh", "timestamp", "date", "time"}
          /\ coordinator.data.price_mwh /= ValueError
          /\ price_native_value(coordinator) = coordinator.data.price_mwh
  /\ registered
       => /\ coordinator /= None
          /\ entry_state \in {LOADED, FAILED_UNLOAD}
  /\ (entry_state = SETUP_IN_PROGRESS /\ refreshing /= None)
       => /\ coordinator = None
          /\ ~registered
          /\ earnings = None
  /\ good = None
       => /\ ~registered
          /\ coordinator = None
          /\ earnings = None
          /\ observed = None

\* Three cycles, the last two of which failed: the sensors are read after
\* them (they are unavailable) and the coordinator still holds the reading
\* of the first, 13.25.
C26_Witness ==
  /\ registered
  /\ cycles = 3
  /\ outcome /= NoException
  /\ ~coordinator.last_update_success
  /\ trace.notified = FALSE
  /\ observed /= None
  /\ observed.at = cycles
  /\ ~observed.available
  /\ coordinator.data.price_mwh = Finite(FALSE, 1325, -2)
  /\ price_native_value(coordinator) = coordinator.data.price_mwh

(***************************************************************************)
(* For every update of the table, at its price and percentage: whether it  *)
(* added nothing to the total (same), and whether the total was the last   *)
(* reading times the rate before it (held) and is so after it (holds), all *)
(* to within 2^-40.                                                        *)
(***************************************************************************)
Proportion ==
  [key \in DOMAIN Accrual |->
     LET after == CreditTable[key]
     IN  [same  |-> AddsExactly(key.sensor.total, after.total, 0,
                                Finite(FALSE, 0, 0), key.percent),
          held  |-> AddsExactly(FromInt(0), key.sensor.total,
                                Whole(key.sensor.last_export), key.price_mwh, key.percent),
          holds |-> AddsExactly(FromInt(0), after.total, Accrual[key].reading,
                                key.price_mwh, key.percent)]]

(***************************************************************************)
(* C27. No export is credited twice. An update with the reading that the   *)
(* sensor took at its last update adds 0 to the total, whatever the price. *)
(* And an update without a reset of the counter, at the rate at which the  *)
(* total was the last reading times the rate (as it is for a new sensor    *)
(* and through a run at one rate), leaves the total the last reading times *)
(* the rate. Both are to within the rounding of the doubles, 2^-40.        *)
(***************************************************************************)
C27_NoExportCreditedTwice ==
  (EarningsCycle /\ trace.notified /\ ExportRead)
    => /\ Accrual[UpdateKey].reading = Whole(trace.before.last_export)
            => Proportion[UpdateKey].same
       /\ (~Accrual[UpdateKey].below /\ Proportion[UpdateKey].held)
            => Proportion[UpdateKey].holds

(***************************************************************************)
(* Home Assistant with several entries of the integration. A config entry  *)
(* has an id, the unique id that the flow gave it (the zone), its data and *)
(* its options. hass.data[DOMAIN] maps the id of each entry that is set up *)
(* to its coordinator, and the earnings sensor of an entry holds the key   *)
(* of the coordinator it listens to. The steps of the flows are taken      *)
(* through the flow manager, which applies the schema of the form to what  *)
(* was submitted before it calls the step.                                 *)
(* There are as many entries as zones were submitted, one per zone.        *)
(***************************************************************************)
\* The schema of the form of async_step_user: the defaults of the keys
\* that are missing (export_entity has none).
data_schema(submitted) ==
  submitted @@ [zone |-> "LZ_NORTH", buyback_provider |-> "Tesla Electric",
                custom_percent |-> Number(90)]

\* The schema of the form of ERCOTOptionsFlow.async_step_init for an entry
\* with the data `data`: the defaults are taken from the data.
options_schema(data, submitted) ==
  submitted @@ [export_entity    |-> Get(data, "export_entity", NoEntity),
                buyback_provider |-> Get(data, "buyback_provider", "Tesla Electric"),
                custom_percent   |-> Get(data, "sellback_percent", Number(90))]

\* The selectors of both forms: a provider of the dropdown, a percentage
\* within the range of the number box, an entity where one is given, and
\* the zone, where the form has one, of the dropdown. The number box has
\* no step: it takes any number from min to max, whole or not, and hands
\* it on as the float that it is (the percentage v is units / scale).
Accepted(user_input) ==
  /\ "export_entity" \in DOMAIN user_input => user_input.export_entity /= NoEntity
  /\ user_input.buyback_provider \in {"Tesla Electric", "Full Rate", "Custom"}
  /\ "custom_percent" \in DOMAIN user_input
       => LET v     == user_input.custom_percent
              scale == IF v.exp < 0 THEN 10^(0 - v.exp) ELSE 1
              units == (IF v.neg THEN -1 ELSE 1) * v.mant
                         * (IF v.exp < 0 THEN 1 ELSE 10^v.exp)
          IN  /\ v.kind = "finite"
              /\ MinPercent * scale <= units
              /\ units <= MaxPercent * scale
  /\ "zone" \in DOMAIN user_input
       => \E i \in 1..Len(ZoneOptions) : ZoneOptions[i] = user_input.zone

\* A variant of unique_id_configured that never finds the unique id.
unique_id_never_configured(config_entries, unique_id) == FALSE

\* async_set_unique_id and _abort_if_unique_id_configured: an entry of the
\* integration has the unique id already.
unique_id_configured(config_entries, unique_id) ==
  \E i \in 1..Len(config_entries) : config_entries[i].unique_id = unique_id

\* async_create_entry of the config flow: the entry that is added, not
\* loaded yet.
ConfigEntry(entry_id, unique_id, data) ==
  [entry_id |-> entry_id, unique_id |-> unique_id, data |-> data, options |-> <<>>,
   state |-> NOT_LOADED]

\* hass.data[DOMAIN][entry.entry_id]: the key of the coordinator of an entry.
DataKey(entry_id) == entry_id

\* The step that was last taken.
Step(step, entry_id, result, submitted) ==
  [step |-> step, entry_id |-> entry_id, result |-> result, submitted |-> submitted]

\* The flow manager's async_configure with a submitted form of the user
\* step, and ERCOTConfigFlow.async_step_user: a submission that the schema
\* rejects shows the form again; the flow is aborted when the zone is the
\* unique id of an entry; else the entry is created with the input as the
\* schema returned it and the sellback_percent of the provider.
ConfigureUser(submitted) ==
  /\ LET user_input == data_schema(submitted)
         entry_id   == Len(hass.config_entries) + 1
     IN  IF ~Accepted(user_input)
           THEN hass' = [hass EXCEPT !.last = Step("user", 0, "invalid", submitted)]
         ELSE IF unique_id_configured(hass.config_entries, user_input.zone)
           THEN hass' = [hass EXCEPT !.last = Step("user", 0, "abort", submitted)]
         ELSE hass' = [hass EXCEPT
                         !.config_entries =
                            Append(@, ConfigEntry(entry_id, user_input.zone,
                                                  EntryData(user_input))),
                         !.last = Step("user", entry_id, "create_entry", submitted)]
  /\ UNCHANGED <<entry, coordinator, registered, refreshing, orphaned, entry_state,
                 fetched, outcome, good, observed, cycles, earnings, earnings_state,
                 export_entity_state, trace>>

\* The flow manager's async_configure with a submitted form of the options
\* flow of entry entry_id, and ERCOTOptionsFlow.async_step_init: the input
\* with the sellback_percent of the provider becomes the options of the
\* entry (async_create_entry of an options flow). No listener of the entry
\* is registered, so nothing else happens.
ConfigureOptions(entry_id, submitted) ==
  /\ entry_id \in 1..Len(hass.config_entries)
  /\ LET user_input == options_schema(hass.config_entries[entry_id].data, submitted)
     IN  IF ~Accepted(user_input)
           THEN hass' = [hass EXCEPT !.last = Step("init", entry_id, "invalid", submitted)]
           ELSE hass' = [hass EXCEPT
                           !.config_entries[entry_id].options = EntryData(user_input),
                           !.last = Step("init", entry_id, "create_entry", submitted)]
  /\ UNCHANGED <<entry, coordinator, registered, refreshing, orphaned, entry_state,
                 fetched, outcome, good, observed, cycles, earnings, earnings_state,
                 export_entity_state, trace>>

\* A map without the key k.
Without(map, k) == [j \in DOMAIN map \ {k} |-> map[j]]

\* async_setup_entry of entry entry_id up to its first await: Home
\* Assistant has put the entry in the state of a set-up in progress, the
\* coordinator is made from the data of the entry, and its first refresh
\* waits for the response. Nothing of the entry is in hass.data[DOMAIN].
SetUp(entry_id) ==
  /\ entry_id \in 1..Len(hass.config_entries)
  /\ hass.config_entries[entry_id].state \in {NOT_LOADED, SETUP_RETRY}
  /\ hass.cycles + Cardinality(DOMAIN hass.refreshing) + Len(hass.orphaned) < MaxCycles
  /\ hass' = [hass EXCEPT
                !.refreshing = (entry_id :> NewCoordinator(hass.config_entries[entry_id].data))
                                 @@ @,
                !.config_entries[entry_id].state = SETUP_IN_PROGRESS,
                !.last = Step("setup", entry_id, "refreshing", None)]
  /\ UNCHANGED <<entry, coordinator, registered, refreshing, orphaned, entry_state,
                 fetched, outcome, good, observed, cycles, earnings, earnings_state,
                 export_entity_state, trace>>

\* async_setup_entry of entry entry_id from the response that its first
\* refresh waited for to the storing of the coordinator: when the refresh
\* raises the set-up ends there, to be tried again, else the coordinator is
\* stored in hass.data[DOMAIN] under the id of the entry. The sensors are
\* not added yet.
FirstRefresh(entry_id, response) ==
  /\ entry_id \in DOMAIN hass.refreshing
  /\ hass.config_entries[entry_id].state = SETUP_IN_PROGRESS
  /\ DataKey(entry_id) \notin DOMAIN hass.data
  /\ LET made   == hass.refreshing[entry_id]
         result == async_update_data(made.zone, response)
     IN  IF result.raised /= NoException
           THEN hass' = [hass EXCEPT !.cycles = @ + 1,
                                     !.refreshing = Without(@, entry_id),
                                     !.config_entries[entry_id].state = SETUP_RETRY,
                                     !.last = Step("first_refresh", entry_id, "retry", None)]
           ELSE hass' = [hass EXCEPT
                           !.cycles  = @ + 1,
                           !.refreshing = Without(@, entry_id),
                           !.data    = (DataKey(entry_id) :> [made EXCEPT !.data = result.value])
                                         @@ @,
                           !.last    = Step("first_refresh", entry_id, "stored", None)]
  /\ UNCHANGED <<entry, coordinator, registered, refreshing, orphaned, entry_state,
                 fetched, outcome, good, observed, cycles, earnings, earnings_state,
                 export_entity_state, trace>>

\* The end of async_setup_entry of entry entry_id, whose coordinator is
\* stored, the forwarding to the sensor platform: sensor.py's
\* async_setup_entry takes the coordinator
\* from hass.data[DOMAIN] under the id of the entry and adds the sensors,
\* the earnings sensor only with an export entity; the entry is loaded.
SetUpSensors(entry_id) ==
  /\ entry_id \in 1..Len(hass.config_entries)
  /\ hass.config_entries[entry_id].state = SETUP_IN_PROGRESS
  /\ DataKey(entry_id) \in DOMAIN hass.data
  /\ hass' = [hass EXCEPT
                !.sensors = (entry_id :>
                               [coordinator |-> DataKey(entry_id),
                                earnings    |-> IF hass.data[DataKey(entry_id)].export_entity
                                                     /= NoEntity
                                                  THEN NewEarningsSensor ELSE None])
                              @@ @,
                !.config_entries[entry_id].state = LOADED,
                !.last    = Step("sensors", entry_id, "loaded", None)]
  /\ UNCHANGED <<entry, coordinator, registered, refreshing, orphaned, entry_state,
                 fetched, outcome, good, observed, cycles, earnings, earnings_state,
                 export_entity_state, trace>>

\* What the sensors of the entries are after the coordinator under `key`
\* called its listeners: the earnings sensors that listen to it ran
\* _handle_coordinator_update.
Notified(sensors, key, states, c) ==
  [id \in DOMAIN sensors |->
     IF sensors[id].coordinator = key /\ sensors[id].earnings /= None
       THEN [sensors[id] EXCEPT !.earnings = handle_coordinator_update(@, states, c)]
       ELSE sensors[id]]

\* A refresh of the coordinator of entry entry_id starts, as async_refresh:
\* sensors listen to it and no refresh of it is under way.
StartUpdate(entry_id) ==
  /\ entry_id \in DOMAIN hass.sensors
  /\ entry_id \notin DOMAIN hass.refreshing
  /\ hass.cycles + Cardinality(DOMAIN hass.refreshing) + Len(hass.orphaned) < MaxCycles
  /\ hass' = [hass EXCEPT
                !.refreshing = (entry_id :> hass.data[hass.sensors[entry_id].coordinator])
                                 @@ @,
                !.last = Step("refresh", entry_id, "refreshing", None)]
  /\ UNCHANGED <<entry, coordinator, registered, refreshing, orphaned, entry_state,
                 fetched, outcome, good, observed, cycles, earnings, earnings_state,
                 export_entity_state, trace>>

\* The refresh of the stored coordinator of entry entry_id from the
\* response that it waited for, as Refresh: the listeners that are called
\* are the sensors that there are by then.
Update(entry_id, response) ==
  /\ entry_id \in DOMAIN hass.refreshing
  /\ DataKey(entry_id) \in DOMAIN hass.data
  /\ LET key    == DataKey(entry_id)
         c      == hass.data[key]
         result == async_update_data(c.zone, response)
         after  == IF result.raised /= NoException
                     THEN [c EXCEPT !.last_update_success = FALSE]
                     ELSE [c EXCEPT !.data = result.value, !.last_update_success = TRUE]
     IN  hass' = [hass EXCEPT
                    !.cycles  = @ + 1,
                    !.refreshing = Without(@, entry_id),
                    !.data    = [@ EXCEPT ![key] = after],
                    !.sensors = IF after.last_update_success \/ c.last_update_success
                                  THEN Notified(@, key, hass.states, after) ELSE @,
                    !.last    = Step("update", entry_id,
                                     IF after.last_update_success THEN "success" ELSE "failed",
                                     None)]
  /\ UNCHANGED <<entry, coordinator, registered, refreshing, orphaned, entry_state,
                 fetched, outcome, good, observed, cycles, earnings, earnings_state,
                 export_entity_state, trace>>

\* async_unload_entry of the loaded entry entry_id up to the end of the
\* unloading of the platform, with what async_unload_platforms returns:
\* when it is true the sensors of the entry are removed, while its
\* coordinator is still in hass.data[DOMAIN]; when it is false nothing is
\* removed and the unload has failed.
UnloadPlatforms(entry_id, unload_ok) ==
  /\ entry_id \in 1..Len(hass.config_entries)
  /\ hass.config_entries[entry_id].state = LOADED
  /\ IF unload_ok
       THEN hass' = [hass EXCEPT
                       !.sensors = [k \in DOMAIN @ \ {entry_id} |-> @[k]],
                       !.config_entries[entry_id].state = UNLOAD_IN_PROGRESS,
                       !.last    = Step("unload_platforms", entry_id, "unloaded", None)]
       ELSE hass' = [hass EXCEPT
                       !.config_entries[entry_id].state = FAILED_UNLOAD,
                       !.last    = Step("unload_platforms", entry_id, "failed", None)]
  /\ UNCHANGED <<entry, coordinator, registered, refreshing, orphaned, entry_state,
                 fetched, outcome, good, observed, cycles, earnings, earnings_state,
                 export_entity_state, trace>>

\* The end of async_unload_entry of entry entry_id after its platform is
\* unloaded: its coordinator is popped from hass.data[DOMAIN], and nothing
\* else is done. A refresh of it that still waits is not cancelled: it
\* goes on, as async_unload_entry above, with a coordinator that nothing
\* refers to any more.
Unload(entry_id) ==
  /\ entry_id \in 1..Len(hass.config_entries)
  /\ hass.config_entries[entry_id].state = UNLOAD_IN_PROGRESS
  /\ hass' = [hass EXCEPT
                !.data    = Without(@, DataKey(entry_id)),
                !.refreshing = Without(@, entry_id),
                !.orphaned = IF entry_id \in DOMAIN hass.refreshing
                               THEN Append(@, [entry_id    |-> entry_id,
                                               coordinator |-> hass.refreshing[entry_id]])
                               ELSE @,
                !.config_entries[entry_id].state = NOT_LOADED,
                !.last    = Step("unload", entry_id, "popped", None)]
  /\ UNCHANGED <<entry, coordinator, registered, refreshing, orphaned, entry_state,
                 fetched, outcome, good, observed, cycles, earnings, earnings_state,
                 export_entity_state, trace>>

\* The refresh of a coordinator that was popped while it waited, the k-th
\* of them, when its response has come, as RefreshOrphaned: the cycle runs
\* to its end on a coordinator that nothing refers to, no listener is
\* called, and nothing of any entry changes.
UpdateOrphaned(k) ==
  /\ k \in 1..Len(hass.orphaned)
  /\ hass' = [hass EXCEPT
                !.cycles   = @ + 1,
                !.orphaned = SubSeq(@, 1, k - 1) \o SubSeq(@, k + 1, Len(@)),
                !.last     = Step("orphaned", hass.orphaned[k].entry_id, "dropped", None)]
  /\ UNCHANGED <<entry, coordinator, registered, refreshing, orphaned, entry_state,
                 fetched, outcome, good, observed, cycles, earnings, earnings_state,
                 export_entity_state, trace>>

\* The export entity takes a state (outside of the integration).
ExportChanged(state) ==
  /\ hass.states /= state
  /\ hass' = [hass EXCEPT !.states = state, !.last = Step("state", 0, "changed", state)]
  /\ UNCHANGED <<entry, coordinator, registered, refreshing, orphaned, entry_state,
                 fetched, outcome, good, observed, cycles, earnings, earnings_state,
                 export_entity_state, trace>>

(***************************************************************************)
(* Entries of several zones, each with the export entity and the provider  *)
(* of 90 percent, while their options are changed, the coordinators run    *)
(* their cycles, the entries are unloaded and set up again, and the export *)
(* entity changes its state.                                               *)
(***************************************************************************)
HassSubmissions ==
  {[zone |-> z, export_entity |-> e, buyback_provider |-> "Tesla Electric"] :
     z \in HassZones, e \in ExportEntities}

\* What the form of the options flow submits: another provider, with its
\* percentage, and another export entity.
HassOptions ==
  {[buyback_provider |-> "Custom", custom_percent |-> Number(50),
    export_entity |-> "sensor.solar_export"]}

HassResponses == {NetworkError, Response(200, HassDoc)}

HassStates == {<<"1", "0">>}

HassInit ==
  /\ Init

HassNext ==
  \/ \E submitted \in HassSubmissions : ConfigureUser(submitted)
  \/ \E entry_id \in 1..Len(hass.config_entries), submitted \in HassOptions :
       ConfigureOptions(entry_id, submitted)
  \/ \E entry_id \in 1..Len(hass.config_entries) : SetUp(entry_id)
  \/ \E entry_id \in 1..Len(hass.config_entries), response \in HassResponses :
       FirstRefresh(entry_id, response)
  \/ \E entry_id \in 1..Len(hass.config_entries) : SetUpSensors(entry_id)
  \/ \E entry_id \in 1..Len(hass.config_entries) : StartUpdate(entry_id)
  \/ \E entry_id \in 1..Len(hass.config_entries), response \in HassResponses :
       Update(entry_id, response)
  \/ \E entry_id \in 1..Len(hass.config_entries), unload_ok \in BOOLEAN :
       UnloadPlatforms(entry_id, unload_ok)
  \/ \E entry_id \in 1..Len(hass.config_entries) : Unload(entry_id)
  \/ \E k \in 1..Len(hass.orphaned) : UpdateOrphaned(k)
  \/ \E state \in HassStates : ExportChanged(state)

HassSpec == HassInit /\ [][HassNext]_vars

\* The ids of the entries whose sensors are added, those of the entries
\* whose coordinator is in hass.data[DOMAIN], those of the entries whose
\* first refresh waits for its response, and the zone of an entry.
Loaded(h) == DOMAIN h.sensors

Stored(h) == {i \in 1..Len(h.config_entries) : DataKey(i) \in DOMAIN h.data}

FirstRefreshing(h) == {i \in DOMAIN h.refreshing : DataKey(i) \notin DOMAIN h.data}

ZoneOf(h, entry_id) == h.config_entries[entry_id].data.zone

(***************************************************************************)
(* C24. There is at most one config entry per zone: no two entries have    *)
(* the same unique id or the same zone, and a user step for a zone that    *)
(* an entry has is aborted and leaves the entries as they are. Each entry  *)
(* whose coordinator is stored has a coordinator of its own, for its zone, *)
(* and hass.data holds no other; the coordinator of an entry is stored     *)
(* from the end of the first refresh of its set-up, until when the entry   *)
(* is being set up with nothing stored, to its pop; the sensors of an      *)
(* entry, added once it is loaded, listen to the coordinator of the entry; *)
(* and a step that concerns one entry (its set-up, its first refresh, the  *)
(* adding of its sensors, the start and the end of a cycle of its          *)
(* coordinator, its unloading, its options) leaves every other entry, its  *)
(* coordinator, its refresh under way and its earnings sensor as they      *)
(* were. A refresh that waits when its entry is popped is not cancelled:   *)
(* it goes on for the zone of the entry, on a coordinator that hass.data   *)
(* does not hold, and its end changes no entry, no stored coordinator, no  *)
(* other refresh and no sensor.                                            *)
(***************************************************************************)
C24_OneEntryPerZone ==
  /\ [](/\ \A i, j \in 1..Len(hass.config_entries) :
              i /= j => /\ hass.config_entries[i].unique_id /= hass.config_entries[j].unique_id
                        /\ ZoneOf(hass, i) /= ZoneOf(hass, j)
        /\ \A i \in 1..Len(hass.config_entries) :
              hass.config_entries[i].unique_id = ZoneOf(hass, i)
        /\ \A i \in Stored(hass) : hass.data[DataKey(i)].zone = ZoneOf(hass, i)
        /\ DOMAIN hass.data = {DataKey(i) : i \in Stored(hass)}
        /\ Cardinality(DOMAIN hass.data) = Cardinality(Stored(hass))
        /\ \A i \in 1..Len(hass.config_entries) :
              LET state == hass.config_entries[i].state
              IN  /\ state \in {NOT_LOADED, SETUP_RETRY}
                       => i \notin Stored(hass) /\ i \notin FirstRefreshing(hass)
                  /\ state = SETUP_IN_PROGRESS
                       => (i \in Stored(hass)) /= (i \in FirstRefreshing(hass))
                  /\ state \in {LOADED, UNLOAD_IN_PROGRESS, FAILED_UNLOAD}
                       => i \in Stored(hass)
        /\ \A i \in DOMAIN hass.refreshing : hass.refreshing[i].zone = ZoneOf(hass, i)
        /\ \A k \in 1..Len(hass.orphaned) :
              /\ hass.orphaned[k].entry_id \in 1..Len(hass.config_entries)
              /\ hass.orphaned[k].coordinator.zone
                   = ZoneOf(hass, hass.orphaned[k].entry_id)
        /\ Loaded(hass)
             = {i \in Stored(hass) : hass.config_entries[i].state \in {LOADED, FAILED_UNLOAD}}
        /\ \A i \in Loaded(hass) :
              /\ hass.sensors[i].coordinator \in DOMAIN hass.data
              /\ hass.data[hass.sensors[i].coordinator].zone = ZoneOf(hass, i)
        /\ \A i, j \in Loaded(hass) :
              i /= j => hass.sensors[i].coordinator /= hass.sensors[j].coordinator)
  /\ [][/\ (/\ hass'.last /= hass.last
            /\ hass'.last.step = "user"
            /\ \E i \in 1..Len(hass.config_entries) :
                  ZoneOf(hass, i) = data_schema(hass'.last.submitted).zone)
             => /\ hass'.last.result \in {"abort", "invalid"}
                /\ hass'.config_entries = hass.config_entries
        /\ (hass'.last /= hass.last /\ hass'.last.step = "orphaned")
             => /\ hass'.config_entries = hass.config_entries
                /\ hass'.data = hass.data
                /\ hass'.refreshing = hass.refreshing
                /\ hass'.sensors = hass.sensors
        /\ \A i \in 1..Len(hass.config_entries) :
              i /= hass'.last.entry_id
                => /\ hass'.config_entries[i] = hass.config_entries[i]
                   /\ i \in Loaded(hass)
                        => /\ i \in Loaded(hass')
                           /\ hass'.sensors[i] = hass.sensors[i]
                   /\ i \in DOMAIN hass.refreshing
                        => /\ i \in DOMAIN hass'.refreshing
                           /\ hass'.refreshing[i] = hass.refreshing[i]
                   /\ \A k \in DOMAIN hass.data :
                        hass.data[k].zone = ZoneOf(hass, i)
                          => /\ k \in DOMAIN hass'.data
                             /\ hass'.data[k] = hass.data[k]]_vars

\* The pipelines that there are for zone z: the coordinators of the zone
\* that run cycles or wait for one, which are the stored ones, those of a
\* first refresh, and those that were popped while their refresh waited.
Pipelines(h, z) ==
  Cardinality({i \in Stored(h) : h.data[DataKey(i)].zone = z})
    + Cardinality({i \in FirstRefreshing(h) : h.refreshing[i].zone = z})
    + Cardinality({k \in 1..Len(h.orphaned) : h.orphaned[k].coordinator.zone = z})

\* The same with one pipeline per zone at most, whatever was unloaded: no
\* two entries have the same zone, no zone has two pipelines or two
\* earnings sensors, a user step is aborted only for a zone that an entry
\* has, and the sensors of two entries listen to two coordinators.
C24_OnePipelinePerZone ==
  /\ \A i, j \in 1..Len(hass.config_entries) :
        i /= j => /\ hass.config_entries[i].unique_id /= hass.config_entries[j].unique_id
                  /\ ZoneOf(hass, i) /= ZoneOf(hass, j)
  /\ \A z \in HassZones :
        /\ Pipelines(hass, z) <= 1
        /\ Cardinality({i \in Loaded(hass) :
                          ZoneOf(hass, i) = z /\ hass.sensors[i].earnings /= None}) <= 1
  /\ (hass.last.step = "user" /\ hass.last.result = "abort")
       => \E i \in 1..Len(hass.config_entries) :
             ZoneOf(hass, i) = data_schema(hass.last.submitted).zone
  /\ \A i, j \in Loaded(hass) :
        i /= j => hass.sensors[i].coordinator /= hass.sensors[j].coordinator

\* Two entries, of LZ_NORTH and of LZ_WEST, are set up; the export entity
\* reads 10 and the coordinator of the second runs a cycle: its earnings
\* sensor credits 10 kWh at the price of LZ_WEST, 16.15, and the sensor
\* and the coordinator of the first are as their set-up left them.
C24_Witness ==
  /\ Len(hass.config_entries) = 2
  /\ ZoneOf(hass, 1) = DEFAULT_ZONE
  /\ ZoneOf(hass, 2) = "LZ_WEST"
  /\ Loaded(hass) = {1, 2}
  /\ hass.last.step = "update"
  /\ hass.last.entry_id = 2
  /\ hass.last.result = "success"
  /\ hass.states = <<"1", "0">>
  /\ hass.data[1].data.price_mwh = Finite(FALSE, 2, 1)
  /\ hass.data[2].data.price_mwh = Finite(FALSE, 1615, -2)
  /\ hass.sensors[1].earnings = NewEarningsSensor
  /\ Whole(hass.sensors[2].earnings.last_export) = 10
  /\ earnings_native_value(hass.sensors[2].earnings) = Finite(FALSE, 15, -2)

(***************************************************************************)
(* C22. Settings changed through the options flow take effect without      *)
(* removing the entry: once the options step of an entry has completed,    *)
(* the coordinator of the entry has, after each of its cycles (a refresh,  *)
(* or the first refresh of a set-up, which stored it), the                 *)
(* sellback_percent and the export_entity that were submitted.             *)
(***************************************************************************)
C22_OptionsTakeEffect ==
  \A i \in Stored(hass) :
    (/\ hass.config_entries[i].options /= <<>>
     /\ hass.last.entry_id = i
     /\ hass.last.step \in {"first_refresh", "update"})
      => /\ hass.data[DataKey(i)].sellback_percent
              = hass.config_entries[i].options.sellback_percent
         /\ hass.data[DataKey(i)].export_entity
              = hass.config_entries[i].options.export_entity

(***************************************************************************)
(* The user step alone, with every kind of submission of its form: each    *)
(* provider with and without a percentage, the custom provider with the    *)
(* percentages at the ends of the range of the number box, just outside of *)
(* it (0 and 100.5) and within it, a whole one and 50.5, for two zones,    *)
(* and once with an export entity; the entries are then set up.            *)
(***************************************************************************)
FlowPercents ==
  {Number(MinPercent - 1), Number(MinPercent), Number(50), Finite(FALSE, 505, -1),
   Number(MaxPercent), Finite(FALSE, 10 * MaxPercent + 5, -1)}

FlowSubmissions ==
  LET providers == {[buyback_provider |-> p] : p \in {"Tesla Electric", "Full Rate", "Custom"}}
                     \cup {[buyback_provider |-> "Tesla Electric",
                            custom_percent |-> Number(50)],
                           [buyback_provider |-> "Full Rate", custom_percent |-> Number(50)]}
                     \cup {[buyback_provider |-> "Custom", custom_percent |-> q] :
                             q \in FlowPercents}
      required  == {[zone |-> z] @@ p : z \in {DEFAULT_ZONE, "LZ_WEST"}, p \in providers}
  IN  required \cup {[zone |-> DEFAULT_ZONE, buyback_provider |-> "Custom",
                        custom_percent |-> Number(50), export_entity |-> e] :
                         e \in ExportEntities}

FlowNext ==
  \/ \E submitted \in FlowSubmissions : ConfigureUser(submitted)
  \/ \E entry_id \in 1..Len(hass.config_entries) : SetUp(entry_id)
  \/ \E entry_id \in 1..Len(hass.config_entries), response \in HassResponses :
       FirstRefresh(entry_id, response)
  \/ \E entry_id \in 1..Len(hass.config_entries) : SetUpSensors(entry_id)

FlowSpec == HassInit /\ [][FlowNext]_vars

\* The user step has just created an entry, as the last step taken.
Created == hass.last.step = "user" /\ hass.last.result = "create_entry"

\* The sellback_percent of the entry that the step created is `custom` for
\* the custom provider, 90 for Tesla Electric and 100 for any other, where
\* the provider is the submitted one, or Tesla Electric, the default of
\* the dropdown, when none was submitted.
StoredFor(custom) ==
  LET stored   == hass.config_entries[hass.last.entry_id].data.sellback_percent
      provider == Get(hass.last.submitted, "buyback_provider", "Tesla Electric")
  IN  stored = CASE provider = "Tesla Electric" -> Number(90)
                 [] provider = "Custom"         -> custom
                 [] OTHER                       -> Number(100)

(***************************************************************************)
(* C23. The sellback_percent that the user step stores in the data of the  *)
(* entry is 90 for the provider "Tesla Electric", the submitted            *)
(* custom_percent for "Custom", or 100 when none was submitted, and 100    *)
(* for any other provider; and the percentage of every entry is an         *)
(* integer from 1 to 100.                                                  *)
(***************************************************************************)
C23_StoredSellbackPercent ==
  /\ Created => StoredFor(Get(hass.last.submitted, "custom_percent", Number(100)))
  /\ \A i \in 1..Len(hass.config_entries) :
        /\ IsWhole(hass.config_entries[i].data.sellback_percent)
        /\ WholeValue(hass.config_entries[i].data.sellback_percent)
             \in MinPercent..MaxPercent

=============================================================================
